---------------------------- MODULE Spec2Model ----------------------------
(***************************************************************************)
(* Snake Killer: the simulation core (js/game.js, js/player.js,            *)
(* js/snake.js, js/bullet.js, js/weapons.js, js/hud.js and the power-up    *)
(* manager) as a state machine.                                            *)
(*                                                                         *)
(* Units.  Lengths are tenths of a pixel (dpx), so that every radius and   *)
(* spawn offset of the program is an integer; time is milliseconds, the    *)
(* unit of the frame timestamps; speeds are dpx per second.  Products are  *)
(* truncated to that grid.                                                 *)
(***************************************************************************)
EXTENDS Integers, Sequences, FiniteSets, TLC

VARIABLES
    leveling,       \* LevelingSystem: [xp, level, totalKills, score]
    levelUpLog,     \* the levels passed to onLevelUp by the last addXp call
    xpCall,         \* the last addXp call: [amount, xp, level] on entry
    probe,          \* a circleCollision call: [c1, c2, applied, result]
    player,         \* Game.player: NoPlayer (null) or a Player
    bullets,        \* Game.bullets, in array order
    snakes,         \* Game.snakes, in array order
    frames,         \* updates applied so far (bounds the run)
    points,         \* Game.points
    activePowerups, \* PowerupManager.activePowerups: [id, remainingTime],
                    \* in insertion order
    pendingAllySpawn, \* PowerupManager.pendingAllySpawn (unset: FALSE)
    running,        \* Game.running
    gameOver,       \* Game.gameOver
    lastTime,       \* Game.lastTime
    lastSpawnTime,  \* Game.lastSpawnTime
    rafQueue,       \* gameLoop callbacks requested for the next frame
    events,         \* what checkCollisions did in the last update
    clock,          \* performance.now()
    ally,           \* an Ally, or NoAlly (none was constructed)
    call            \* the last call made on the component driven alone:
                    \* [op, id, arg, ret]

vars == <<leveling, levelUpLog, xpCall, probe, player, bullets, snakes,
          frames, points, activePowerups, pendingAllySpawn, running,
          gameOver, lastTime, lastSpawnTime, rafQueue, events, clock, ally,
          call>>

(***************************************************************************)
(* Bounds of the model.                                                    *)
(***************************************************************************)
MaxLevel == 26
MaxKills == 5
MaxFrames == 3
MaxTicks == 2
SnapshotTime == 5000
EpochOffset == 1000000

(***************************************************************************)
(* GAME_CONSTANTS (js/hud.js).                                             *)
(***************************************************************************)
CANVAS_WIDTH == 12000
CANVAS_HEIGHT == 8000
PLAYER_RADIUS == 200
PLAYER_SPEED == 3000
PLAYER_MAX_HEALTH == 100
BULLET_RADIUS == 60
SNAKE_BASE_RADIUS == 150
SNAKE_BASE_SPEED == 1000
SNAKE_BASE_HEALTH == 50
SNAKE_BASE_XP == 10
SNAKE_SPAWN_RATE == 1500
SNAKE_MIN_SPAWN_RATE == 400

(***************************************************************************)
(* Math helpers.                                                           *)
(***************************************************************************)
Min(a, b) == IF a < b THEN a ELSE b
Max(a, b) == IF a > b THEN a ELSE b

RECURSIVE SqrtSearch(_, _, _)
SqrtSearch(n, lo, hi) ==
    IF lo >= hi THEN lo
    ELSE LET mid == (lo + hi + 1) \div 2
         IN  IF mid * mid <= n THEN SqrtSearch(n, mid, hi)
                               ELSE SqrtSearch(n, lo, mid - 1)

\* Math.floor(Math.sqrt(n)) for an integer n >= 0.
FloorSqrt(n) == SqrtSearch(n, 0, Min(n, 46340))

\* a / b truncated toward zero (b > 0): the grid of the model
TDiv(a, b) == IF a >= 0 THEN a \div b ELSE -((-a) \div b)

clamp(value, min, max) == Max(min, Min(max, value))

\* (cos, sin) of angleBetween(0, 0, dx, dy), in thousandths; atan2(0, 0) = 0
UnitVec(dx, dy) ==
    IF dx = 0 /\ dy = 0 THEN [x |-> 1000, y |-> 0]
    ELSE IF dy = 0 THEN [x |-> IF dx > 0 THEN 1000 ELSE -1000, y |-> 0]
    ELSE IF dx = 0 THEN [x |-> 0, y |-> IF dy > 0 THEN 1000 ELSE -1000]
    ELSE LET d == FloorSqrt(dx * dx + dy * dy)
         IN  [x |-> TDiv(dx * 1000, d), y |-> TDiv(dy * 1000, d)]

\* (cos, sin) of a spread angle given in milliradians, in ten-thousandths
SpreadTrig(a) ==
    LET m == IF a < 0 THEN -a ELSE a
        c == CASE m = 0 -> 10000 [] m = 50 -> 9988 [] m = 100 -> 9950
               [] m = 200 -> 9801
        t == CASE m = 0 -> 0 [] m = 50 -> 500 [] m = 100 -> 998
               [] m = 200 -> 1987
    IN  [cos |-> c, sin |-> IF a < 0 THEN -t ELSE t]

\* the direction u turned by the spread angle a
Rotate(u, a) ==
    LET t == SpreadTrig(a)
    IN  [x |-> TDiv(u.x * t.cos - u.y * t.sin, 10000),
         y |-> TDiv(u.x * t.sin + u.y * t.cos, 10000)]

(***************************************************************************)
(* LevelingSystem (js/hud.js).                                             *)
(***************************************************************************)
NewLeveling == [xp |-> 0, level |-> 1, totalKills |-> 0, score |-> 0]

getXpForLevelLinear(level) == 100 * level

\* Math.floor(100 * Math.pow(level, 1.5)) = floor(sqrt(10000 * level^3))
getXpForLevel(level) == FloorSqrt(10000 * level * level * level)

getXpToNextLevel(lv) == getXpForLevel(lv.level)

\* The while loop of addXp; log collects the arguments of onLevelUp.
RECURSIVE LevelUpLoop(_, _)
LevelUpLoop(lv, log) ==
    IF lv.xp >= getXpToNextLevel(lv)
    THEN LevelUpLoop([lv EXCEPT !.xp = @ - getXpToNextLevel(lv),
                                !.level = @ + 1],
                     Append(log, lv.level + 1))
    ELSE [lv |-> lv, log |-> log]

addXpSingle(lv, amount) ==
    LET a == [lv EXCEPT !.xp = @ + amount,
                        !.totalKills = @ + 1,
                        !.score = @ + amount * 10]
    IN  IF a.xp >= getXpToNextLevel(a)
        THEN [lv |-> [a EXCEPT !.xp = @ - getXpToNextLevel(a),
                               !.level = @ + 1],
              log |-> <<a.level + 1>>]
        ELSE [lv |-> a, log |-> <<>>]

addXpNoCarry(lv, amount) ==
    LET r == LevelUpLoop([lv EXCEPT !.xp = @ + amount,
                                    !.totalKills = @ + 1,
                                    !.score = @ + amount * 10], <<>>)
    IN  IF r.log = <<>> THEN r ELSE [r EXCEPT !.lv.xp = 0]

addXp(lv, amount) ==
    LevelUpLoop([lv EXCEPT !.xp = @ + amount,
                           !.totalKills = @ + 1,
                           !.score = @ + amount * 10], <<>>)

getSpawnRateNoFloor(lv) ==
    SNAKE_SPAWN_RATE - ((lv.level - 1) \div 2) * 100

getSpawnRate(lv) ==
    LET reduction == ((lv.level - 1) \div 2) * 100
    IN  Max(SNAKE_MIN_SPAWN_RATE, SNAKE_SPAWN_RATE - reduction)

getDifficultyInfo(lv) ==
    [spawnRate |-> getSpawnRate(lv),
     maxSnakes |-> 10 + lv.level * 2]

(***************************************************************************)
(* Geometry (js/hud.js).  distance() is a real number d = sqrt(n) with n   *)
(* an integer: it is held as floor(d) and whether d is that integer, which *)
(* decides every comparison of d with an integer.                          *)
(***************************************************************************)
distance(x1, y1, x2, y2) ==
    LET dx == x2 - x1
        dy == y2 - y1
        n  == dx * dx + dy * dy
        f  == FloorSqrt(n)
    IN  [floor |-> f, exact |-> (f * f = n)]

\* d < k and d <= k, for a distance d and an integer k
DistLess(d, k) == d.floor < k
DistLessEq(d, k) == d.floor < k \/ (d.floor = k /\ d.exact)

circleCollisionInclusive(c1, c2) ==
    DistLessEq(distance(c1.x, c1.y, c2.x, c2.y), c1.radius + c2.radius)

circleCollision(c1, c2) ==
    LET dist == distance(c1.x, c1.y, c2.x, c2.y)
    IN  DistLess(dist, c1.radius + c2.radius)

(***************************************************************************)
(* WEAPONS (js/weapons.js): fireRate in ms, bulletSpeed in dpx/s,          *)
(* bulletSize in tenths, spread in milliradians.                           *)
(***************************************************************************)
WEAPONS ==
    [pistol  |-> [id |-> "pistol", damage |-> 25, fireRate |-> 400,
                  bulletSpeed |-> 5000, bulletSize |-> 10, count |-> 1,
                  spread |-> 0],
     rapid   |-> [id |-> "rapid", damage |-> 12, fireRate |-> 120,
                  bulletSpeed |-> 6000, bulletSize |-> 6, count |-> 1,
                  spread |-> 100],
     shotgun |-> [id |-> "shotgun", damage |-> 18, fireRate |-> 900,
                  bulletSpeed |-> 4000, bulletSize |-> 7, count |-> 5,
                  spread |-> 400],
     tank    |-> [id |-> "tank", damage |-> 100, fireRate |-> 1200,
                  bulletSpeed |-> 3000, bulletSize |-> 40, count |-> 1,
                  spread |-> 0]]

WeaponIds == {"pistol", "rapid", "shotgun", "tank"}

(***************************************************************************)
(* Bullet (js/bullet.js).  The trail and the colours are drawing state.    *)
(***************************************************************************)
\* new Bullet(x, y, angle, weapon, modifiers), the angle given as (cos, sin)
NewBullet(x, y, dir, w, modifiers) ==
    LET speed == IF modifiers.fasterGuns THEN (w.bulletSpeed * 3) \div 2
                                         ELSE w.bulletSpeed
        wide(v) == IF modifiers.wideShot THEN (v * 3) \div 2 ELSE v
    IN  [x |-> x, y |-> y,
         radius |-> Max(20, wide((w.bulletSize * BULLET_RADIUS) \div 10)),
         damage |-> wide(w.damage),
         vx |-> TDiv(dir.x * speed, 1000),
         vy |-> TDiv(dir.y * speed, 1000),
         active |-> TRUE]

BulletOutOfBounds(b, canvasWidth, canvasHeight) ==
    LET margin == b.radius * 2
    IN  \/ b.x < -margin
        \/ b.x > canvasWidth + margin
        \/ b.y < -margin
        \/ b.y > canvasHeight + margin

BulletUpdateNoMargin(b, deltaTime, canvasWidth, canvasHeight) ==
    LET m == [b EXCEPT !.x = @ + TDiv(b.vx * deltaTime, 1000),
                       !.y = @ + TDiv(b.vy * deltaTime, 1000)]
    IN  IF \/ m.x < 0 \/ m.x > canvasWidth
           \/ m.y < 0 \/ m.y > canvasHeight
        THEN [m EXCEPT !.active = FALSE]
        ELSE m

\* Bullet.update(deltaTime, canvasWidth, canvasHeight), deltaTime in ms
BulletUpdate(b, deltaTime, canvasWidth, canvasHeight) ==
    LET m == [b EXCEPT !.x = @ + TDiv(b.vx * deltaTime, 1000),
                       !.y = @ + TDiv(b.vy * deltaTime, 1000)]
    IN  IF BulletOutOfBounds(m, canvasWidth, canvasHeight)
        THEN [m EXCEPT !.active = FALSE]
        ELSE m

BulletDestroy(b) == [b EXCEPT !.active = FALSE]

getCollisionBounds(e) == [x |-> e.x, y |-> e.y, radius |-> e.radius]

(***************************************************************************)
(* Snake (js/snake.js).  Body segments, hue and hit flash are drawing      *)
(* state.  sizeVariation and speedVariation are percentages.               *)
(***************************************************************************)
\* new Snake(canvasWidth, canvasHeight, level) spawned at the edge point at
NewSnake(at, level, sizeVariation, speedVariation) ==
    LET health == ((SNAKE_BASE_HEALTH \div 5) * (4 + level) * sizeVariation)
                      \div 100
    IN  [x |-> at.x, y |-> at.y,
         radius |-> (SNAKE_BASE_RADIUS * sizeVariation) \div 100,
         speed |-> ((SNAKE_BASE_SPEED \div 10) * (9 + level)
                        * speedVariation) \div 100,
         maxHealth |-> health,
         health |-> health,
         xpValue |-> (SNAKE_BASE_XP \div 5) * (4 + level),
         vx |-> 0, vy |-> 0,
         active |-> TRUE,
         frozen |-> FALSE]

SnakeUpdateThoughFrozen(s, deltaTime, playerX, playerY, wobble) ==
    LET dx == playerX - s.x
        dy == playerY - s.y
        u  == UnitVec(dx, dy)
        vx == IF dx = 0 /\ dy = 0 THEN s.vx ELSE TDiv(u.x * s.speed, 1000)
        vy == IF dx = 0 /\ dy = 0 THEN s.vy ELSE TDiv(u.y * s.speed, 1000)
    IN  [s EXCEPT
           !.vx = vx, !.vy = vy,
           !.x = @ + TDiv((vx * 100 + (-vy) * wobble * 3) * deltaTime, 100000),
           !.y = @ + TDiv((vy * 100 + vx * wobble * 3) * deltaTime, 100000)]

\* Snake.update(deltaTime, playerX, playerY); wobble is the value of
\* Math.sin(Date.now() * ...) in tenths
SnakeUpdate(s, deltaTime, playerX, playerY, wobble) ==
    IF s.frozen THEN s
    ELSE LET dx == playerX - s.x
             dy == playerY - s.y
             u  == UnitVec(dx, dy)
             vx == IF dx = 0 /\ dy = 0 THEN s.vx
                   ELSE TDiv(u.x * s.speed, 1000)
             vy == IF dx = 0 /\ dy = 0 THEN s.vy
                   ELSE TDiv(u.y * s.speed, 1000)
             perpX == -vy
             perpY == vx
         IN  [s EXCEPT
                !.vx = vx, !.vy = vy,
                !.x = @ + TDiv((vx * 100 + perpX * wobble * 3) * deltaTime,
                               100000),
                !.y = @ + TDiv((vy * 100 + perpY * wobble * 3) * deltaTime,
                               100000)]

\* Snake.takeDamage(damage): the snake after the call and the value returned
SnakeTakeDamage(s, damage) ==
    LET h == s.health - damage
    IN  IF h <= 0
        THEN [snake |-> [s EXCEPT !.health = h, !.active = FALSE],
              killed |-> TRUE]
        ELSE [snake |-> [s EXCEPT !.health = h], killed |-> FALSE]

(***************************************************************************)
(* Player (js/player.js).  Times are ms.  Muzzle flash, recoil recovery,   *)
(* pulse and colours are drawing state; the recoil offset at the moment of *)
(* a shot is always 5 px.                                                  *)
(***************************************************************************)
NoPlayer == [null |-> TRUE]
HasPlayer(p) == "null" \notin DOMAIN p

PowerupFlags == {"rapidFire", "wideShot", "shield", "fasterGuns",
                 "freezeSnakes"}

\* new Player(x, y)
NewPlayer(x, y) ==
    [x |-> x, y |-> y,
     radius |-> PLAYER_RADIUS,
     speed |-> PLAYER_SPEED,
     maxHealth |-> PLAYER_MAX_HEALTH,
     health |-> PLAYER_MAX_HEALTH,
     currentWeapon |-> "pistol",
     lastShootTime |-> 0,
     keys |-> [up |-> FALSE, down |-> FALSE, left |-> FALSE, right |-> FALSE],
     mouseX |-> x, mouseY |-> y, mouseDown |-> FALSE,
     powerups |-> [f \in PowerupFlags |-> FALSE],
     rotation |-> [x |-> 1000, y |-> 0],
     active |-> TRUE,
     invulnerable |-> FALSE,
     invulnerableTime |-> 0]

\* Player.setInvulnerable(duration)
setInvulnerable(p, duration) ==
    [p EXCEPT !.invulnerable = TRUE, !.invulnerableTime = duration]

PlayerTakeDamageNoClamp(p, damage) ==
    IF p.invulnerable \/ p.powerups.shield
    THEN [player |-> p, died |-> FALSE]
    ELSE LET q == setInvulnerable([p EXCEPT !.health = @ - damage], 1000)
         IN  IF q.health <= 0
             THEN [player |-> [q EXCEPT !.active = FALSE], died |-> TRUE]
             ELSE [player |-> q, died |-> FALSE]

PlayerTakeDamageNoWindow(p, damage) ==
    IF p.invulnerable \/ p.powerups.shield
    THEN [player |-> p, died |-> FALSE]
    ELSE LET q == [p EXCEPT !.health = @ - damage]
         IN  IF q.health <= 0
             THEN [player |-> [q EXCEPT !.health = 0, !.active = FALSE],
                   died |-> TRUE]
             ELSE [player |-> q, died |-> FALSE]

PlayerTakeDamageIgnoresShield(p, damage) ==
    IF p.invulnerable
    THEN [player |-> p, died |-> FALSE]
    ELSE LET q == setInvulnerable([p EXCEPT !.health = @ - damage], 1000)
         IN  IF q.health <= 0
             THEN [player |-> [q EXCEPT !.health = 0, !.active = FALSE],
                   died |-> TRUE]
             ELSE [player |-> q, died |-> FALSE]

\* Player.takeDamage(damage): the player after the call and the value returned
PlayerTakeDamage(p, damage) ==
    IF p.invulnerable \/ p.powerups.shield
    THEN [player |-> p, died |-> FALSE]
    ELSE LET q == setInvulnerable([p EXCEPT !.health = @ - damage], 1000)
         IN  IF q.health <= 0
             THEN [player |-> [q EXCEPT !.health = 0, !.active = FALSE],
                   died |-> TRUE]
             ELSE [player |-> q, died |-> FALSE]

\* Player.heal(amount)
PlayerHeal(p, amount) ==
    [p EXCEPT !.health = Min(p.health + amount, p.maxHealth)]

\* Player.applyPowerup(type, duration) / removePowerup(type)
applyPowerup(p, type) ==
    IF type \in DOMAIN p.powerups THEN [p EXCEPT !.powerups[type] = TRUE]
                                  ELSE p
removePowerupShieldStays(p, type) ==
    IF type \in DOMAIN p.powerups /\ type # "shield"
    THEN [p EXCEPT !.powerups[type] = FALSE]
    ELSE p
removePowerup(p, type) ==
    IF type \in DOMAIN p.powerups THEN [p EXCEPT !.powerups[type] = FALSE]
                                  ELSE p

\* Player.handleKeyInput(key, pressed)
handleKeyInput(p, key, pressed) ==
    IF key \in {"w", "arrowup"} THEN [p EXCEPT !.keys.up = pressed]
    ELSE IF key \in {"s", "arrowdown"} THEN [p EXCEPT !.keys.down = pressed]
    ELSE IF key \in {"a", "arrowleft"} THEN [p EXCEPT !.keys.left = pressed]
    ELSE IF key \in {"d", "arrowright"} THEN [p EXCEPT !.keys.right = pressed]
    ELSE p

\* Player.handleMouseInput(x, y, down); down is <<>> when not given (null)
\* and <<v>> when given as v
handleMouseInput(p, x, y, down) ==
    LET q == [p EXCEPT !.mouseX = x, !.mouseY = y]
    IN  IF down = <<>> THEN q ELSE [q EXCEPT !.mouseDown = down[1]]

\* Player.setWeapon(weaponId)
setWeapon(p, weaponId) ==
    IF weaponId \in WeaponIds THEN [p EXCEPT !.currentWeapon = weaponId]
                              ELSE p

\* Player.canShoot() at Date.now() = now: the cooldown is fireRate, halved by
\* rapidFire and divided by 1.5 by fasterGuns
canShoot(p, now) ==
    LET w == WEAPONS[p.currentWeapon]
        half == IF p.powerups.rapidFire THEN 2 ELSE 1
        fast == IF p.powerups.fasterGuns THEN 3 ELSE 2
    IN  (now - p.lastShootTime) * half * fast >= w.fireRate * 2

\* the bullets of Player.shoot(), in array order; jitter is the random
\* spread of a single shot, in milliradians
ShootBullets(p, jitter) ==
    LET w == WEAPONS[p.currentWeapon]
        gunEndX == p.x + TDiv(p.rotation.x * 230, 1000)
        gunEndY == p.y + TDiv(p.rotation.y * 230, 1000)
        spawnX == gunEndX + TDiv(p.rotation.y * (-24), 1000)
        spawnY == gunEndY + TDiv((-p.rotation.x) * (-24), 1000)
    IN  IF w.count > 1
        THEN LET step == w.spread \div (w.count - 1)
             IN  [i \in 1..w.count |->
                    NewBullet(spawnX, spawnY,
                              Rotate(p.rotation,
                                     step * (i - 1) - w.spread \div 2),
                              w, p.powerups)]
        ELSE <<NewBullet(spawnX, spawnY,
                         Rotate(p.rotation, IF w.spread = 0 THEN 0 ELSE jitter),
                         w, p.powerups)>>

PlayerUpdateLoose(p, deltaTime, canvasWidth, canvasHeight, now, jitter) ==
    LET kx == (IF p.keys.right THEN 1 ELSE 0) - (IF p.keys.left THEN 1 ELSE 0)
        ky == (IF p.keys.down THEN 1 ELSE 0) - (IF p.keys.up THEN 1 ELSE 0)
        factor == IF kx # 0 /\ ky # 0 THEN 7071 ELSE 10000
        step == TDiv(p.speed * deltaTime, 1000)
        x2 == clamp(p.x + TDiv(kx * factor * step, 10000), 0, canvasWidth)
        y2 == clamp(p.y + TDiv(ky * factor * step, 10000), 0, canvasHeight)
    IN  [player |-> [p EXCEPT !.x = x2, !.y = y2], bullets |-> <<>>]

\* Player.update(deltaTime, canvasWidth, canvasHeight) at Date.now() = now:
\* the player after the call and the bullets returned (none: null)
PlayerUpdate(p, deltaTime, canvasWidth, canvasHeight, now, jitter) ==
    LET kx == (IF p.keys.right THEN 1 ELSE 0) - (IF p.keys.left THEN 1 ELSE 0)
        ky == (IF p.keys.down THEN 1 ELSE 0) - (IF p.keys.up THEN 1 ELSE 0)
        \* 1 / Math.sqrt(2) for a diagonal, in ten-thousandths
        factor == IF kx # 0 /\ ky # 0 THEN 7071 ELSE 10000
        step == TDiv(p.speed * deltaTime, 1000)
        mx == TDiv(kx * factor * step, 10000)
        my == TDiv(ky * factor * step, 10000)
        x2 == clamp(p.x + mx, p.radius, canvasWidth - p.radius)
        y2 == clamp(p.y + my, p.radius, canvasHeight - p.radius)
        t2 == IF p.invulnerable THEN p.invulnerableTime - deltaTime
                                ELSE p.invulnerableTime
        moved == [p EXCEPT
                    !.x = x2, !.y = y2,
                    !.rotation = UnitVec(p.mouseX - x2, p.mouseY - y2),
                    !.invulnerableTime = t2,
                    !.invulnerable = p.invulnerable /\ ~(t2 <= 0)]
    IN  IF moved.mouseDown /\ canShoot(moved, now)
        THEN [player |-> [moved EXCEPT !.lastShootTime = now],
              bullets |-> ShootBullets(moved, jitter)]
        ELSE [player |-> moved, bullets |-> <<>>]

(***************************************************************************)
(* POWER_PACKS and PowerupManager (powerup manager source).  The active    *)
(* map is held in insertion order, as a Map iterates; durations are ms.    *)
(***************************************************************************)
POWER_PACKS ==
    [fasterGuns   |-> [id |-> "fasterGuns", duration |-> 12000, cost |-> 10],
     shield       |-> [id |-> "shield", duration |-> 8000, cost |-> 10],
     freezeSnakes |-> [id |-> "freezeSnakes", duration |-> 5000, cost |-> 10],
     callForHelp  |-> [id |-> "callForHelp", duration |-> 15000, cost |-> 10]]

PackIds == {"fasterGuns", "shield", "freezeSnakes", "callForHelp"}

\* Map.has / Map.set / Map.delete on the active map
MapHas(m, id) == \E i \in 1..Len(m) : m[i].id = id
MapSetAppend(m, id, remainingTime) ==
    Append(m, [id |-> id, remainingTime |-> remainingTime])
MapSet(m, id, remainingTime) ==
    IF MapHas(m, id)
    THEN [i \in 1..Len(m) |->
            IF m[i].id = id THEN [id |-> id, remainingTime |-> remainingTime]
                            ELSE m[i]]
    ELSE Append(m, [id |-> id, remainingTime |-> remainingTime])
MapDelete(m, id) == SelectSeq(m, LAMBDA e : e.id # id)

\* PowerupManager.hasActivePowerup()
hasActivePowerup(m) == Len(m) > 0

\* PowerupManager.triggerFreeze(snakes, duration)
triggerFreeze(ss) ==
    [i \in 1..Len(ss) |->
        IF ss[i].active THEN [ss[i] EXCEPT !.frozen = TRUE] ELSE ss[i]]

unfreezeAllFrozenAtActivation(ss) ==
    [i \in 1..Len(ss) |-> IF i = 1 THEN [ss[i] EXCEPT !.frozen = FALSE]
                                   ELSE ss[i]]

\* PowerupManager.unfreezeAll(snakes)
unfreezeAll(ss) == [i \in 1..Len(ss) |-> [ss[i] EXCEPT !.frozen = FALSE]]

\* PowerupManager.triggerNuke(snakes)
triggerNuke(ss) ==
    [i \in 1..Len(ss) |->
        IF ss[i].active THEN SnakeTakeDamage(ss[i], 100).snake ELSE ss[i]]

\* PowerupManager.activate(powerup, player, snakes) on the game state g
PowerupActivate(g, powerup) ==
    IF powerup.id = "nuke"
    THEN [g EXCEPT !.snakes = triggerNuke(g.snakes)]
    ELSE IF powerup.id = "freezeSnakes"
    THEN [g EXCEPT !.snakes = triggerFreeze(g.snakes),
                   !.activePowerups = MapSet(@, powerup.id, powerup.duration)]
    ELSE IF powerup.id = "callForHelp"
    THEN [g EXCEPT !.pendingAllySpawn = TRUE,
                   !.activePowerups = MapSet(@, powerup.id, powerup.duration)]
    ELSE [g EXCEPT !.player = applyPowerup(g.player, powerup.id),
                   !.activePowerups = MapSet(@, powerup.id, powerup.duration)]

\* the for-of loop of PowerupManager.update over the entries ids[k..]
RECURSIVE PowerupTimers(_, _, _, _)
PowerupTimers(g, ids, k, deltaTime) ==
    IF k > Len(ids) THEN g
    ELSE LET id == ids[k]
             e  == CHOOSE e \in {g.activePowerups[i] :
                                    i \in 1..Len(g.activePowerups)} : e.id = id
             t  == e.remainingTime - deltaTime
             ticked == [g EXCEPT !.activePowerups = MapSet(@, id, t)]
             expired ==
                 IF id = "freezeSnakes"
                 THEN [ticked EXCEPT !.snakes = unfreezeAll(@)]
                 ELSE IF id = "callForHelp"
                 THEN ticked
                 ELSE [ticked EXCEPT !.player = removePowerup(@, id)]
         IN  PowerupTimers(
                 IF t <= 0
                 THEN [expired EXCEPT !.activePowerups = MapDelete(@, id)]
                 ELSE ticked,
                 ids, k + 1, deltaTime)

\* PowerupManager.update(deltaTime, player, snakes)
PowerupUpdate(g, deltaTime) ==
    PowerupTimers(g, [i \in 1..Len(g.activePowerups) |->
                         g.activePowerups[i].id], 1, deltaTime)

\* PowerupManager.reset(player, snakes)
RECURSIVE PowerupResetLoop(_, _, _)
PowerupResetLoop(g, ids, k) ==
    IF k > Len(ids) THEN [g EXCEPT !.activePowerups = <<>>]
    ELSE PowerupResetLoop(
             IF ids[k] = "freezeSnakes"
             THEN [g EXCEPT !.snakes = unfreezeAll(@)]
             ELSE [g EXCEPT !.player = removePowerup(@, ids[k])],
             ids, k + 1)

PowerupReset(g) ==
    PowerupResetLoop(g, [i \in 1..Len(g.activePowerups) |->
                            g.activePowerups[i].id], 1)

(***************************************************************************)
(* Game (js/game.js), on the game state g: a record of the fields of the   *)
(* Game, its LevelingSystem and its PowerupManager.  events lists what     *)
(* checkCollisions did in the frame, in order.                             *)
(***************************************************************************)
\* Date.now() when the frame timestamp is t
DateNow(t) == t + EpochOffset

\* an entry of events: the bullet and the snake by array index, the snake as
\* the check found it, and what the call returned or changed
HitEvent(i, j, found, r) ==
    [kind |-> "hit", bullet |-> i, snake |-> j, found |-> found,
     killed |-> r.killed, damage |-> found.health - r.snake.health]
ContactEvent(j, found, before, after) ==
    [kind |-> "contact", bullet |-> 0, snake |-> j, found |-> found,
     killed |-> FALSE, damage |-> before.health - after.health,
     health |-> before.health,
     guarded |-> before.invulnerable \/ before.powerups.shield]

AwardKillHealsEveryKill(g, s) ==
    LET r == addXp(g.leveling, s.xpValue)
        g1 == [g EXCEPT !.leveling = r.lv,
                        !.levelUpLog = r.log,
                        !.xpCall = [amount |-> s.xpValue,
                                    xp |-> g.leveling.xp,
                                    level |-> g.leveling.level]]
        g2 == IF g1.player.health < g1.player.maxHealth
              THEN [g1 EXCEPT !.player = PlayerHeal(@, 20)]
              ELSE g1
    IN  [g2 EXCEPT !.points = @ + 1]

AwardKillNoPoints(g, s) ==
    LET r == addXp(g.leveling, s.xpValue)
        g1 == [g EXCEPT !.leveling = r.lv,
                        !.levelUpLog = r.log,
                        !.xpCall = [amount |-> s.xpValue,
                                    xp |-> g.leveling.xp,
                                    level |-> g.leveling.level]]
    IN  IF /\ g1.leveling.totalKills > 0
           /\ g1.leveling.totalKills % 5 = 0
           /\ g1.player.health < g1.player.maxHealth
        THEN [g1 EXCEPT !.player = PlayerHeal(@, 20)]
        ELSE g1

\* the body of `if (killed)` for the snake s
AwardKill(g, s) ==
    LET r == addXp(g.leveling, s.xpValue)
        g1 == [g EXCEPT !.leveling = r.lv,
                        !.levelUpLog = r.log,
                        !.xpCall = [amount |-> s.xpValue,
                                    xp |-> g.leveling.xp,
                                    level |-> g.leveling.level]]
        g2 == IF /\ g1.leveling.totalKills > 0
                 /\ g1.leveling.totalKills % 5 = 0
                 /\ g1.player.health < g1.player.maxHealth
              THEN [g1 EXCEPT !.player = PlayerHeal(@, 20)]
              ELSE g1
    IN  [g2 EXCEPT !.points = @ + 1]

BulletMeetsSnakeInactiveToo(g, i, bulletBounds, j) ==
    IF circleCollision(bulletBounds, getCollisionBounds(g.snakes[j]))
    THEN LET r == SnakeTakeDamage(g.snakes[j], g.bullets[i].damage)
             g1 == [g EXCEPT !.bullets[i] = BulletDestroy(@),
                             !.snakes[j] = r.snake,
                             !.events = Append(@, HitEvent(i, j, g.snakes[j],
                                                           r))]
         IN  IF r.killed THEN AwardKill(g1, r.snake) ELSE g1
    ELSE g

\* the body of the inner forEach for bullet i (its bounds taken before the
\* loop) and snake j
BulletMeetsSnake(g, i, bulletBounds, j) ==
    IF ~g.snakes[j].active THEN g
    ELSE IF circleCollision(bulletBounds, getCollisionBounds(g.snakes[j]))
    THEN LET r == SnakeTakeDamage(g.snakes[j], g.bullets[i].damage)
             g1 == [g EXCEPT !.bullets[i] = BulletDestroy(@),
                             !.snakes[j] = r.snake,
                             !.events = Append(@, HitEvent(i, j, g.snakes[j],
                                                           r))]
         IN  IF r.killed THEN AwardKill(g1, r.snake) ELSE g1
    ELSE g

RECURSIVE SnakesForEachBullet(_, _, _, _)
SnakesForEachBullet(g, i, bulletBounds, j) ==
    IF j > Len(g.snakes) THEN g
    ELSE SnakesForEachBullet(BulletMeetsSnake(g, i, bulletBounds, j),
                             i, bulletBounds, j + 1)

RECURSIVE BulletsForEach(_, _)
BulletsForEach(g, i) ==
    IF i > Len(g.bullets) THEN g
    ELSE BulletsForEach(
             IF ~g.bullets[i].active THEN g
             ELSE SnakesForEachBullet(g, i,
                                      getCollisionBounds(g.bullets[i]), 1),
             i + 1)

SnakeMeetsPlayerInactiveToo(g, playerBounds, j) ==
    IF circleCollision(playerBounds, getCollisionBounds(g.snakes[j]))
    THEN LET damage == 5 + g.snakes[j].radius \div 20
             r == PlayerTakeDamage(g.player, damage)
         IN  [g EXCEPT !.player = r.player,
                       !.snakes[j].active = FALSE,
                       !.events = Append(@, ContactEvent(j, g.snakes[j],
                                                         g.player, r.player))]
    ELSE g

SnakeMeetsPlayerSparesWhenShielded(g, playerBounds, j) ==
    IF ~g.snakes[j].active THEN g
    ELSE IF circleCollision(playerBounds, getCollisionBounds(g.snakes[j]))
    THEN LET damage == 5 + g.snakes[j].radius \div 20
             r == PlayerTakeDamage(g.player, damage)
         IN  [g EXCEPT !.player = r.player,
                       !.snakes[j].active =
                           g.player.invulnerable \/ g.player.powerups.shield,
                       !.events = Append(@, ContactEvent(j, g.snakes[j],
                                                         g.player, r.player))]
    ELSE g

SnakeMeetsPlayerPaysKill(g, playerBounds, j) ==
    IF ~g.snakes[j].active THEN g
    ELSE IF circleCollision(playerBounds, getCollisionBounds(g.snakes[j]))
    THEN LET damage == 5 + g.snakes[j].radius \div 20
             r == PlayerTakeDamage(g.player, damage)
         IN  AwardKill([g EXCEPT !.player = r.player,
                                 !.snakes[j].active = FALSE,
                                 !.events = Append(@, ContactEvent(j,
                                     g.snakes[j], g.player, r.player))],
                       g.snakes[j])
    ELSE g

\* the body of the snake-player forEach for snake j
SnakeMeetsPlayer(g, playerBounds, j) ==
    IF ~g.snakes[j].active THEN g
    ELSE IF circleCollision(playerBounds, getCollisionBounds(g.snakes[j]))
    THEN LET damage == 5 + g.snakes[j].radius \div 20
             r == PlayerTakeDamage(g.player, damage)
         IN  [g EXCEPT !.player = r.player,
                       !.snakes[j].active = FALSE,
                       !.events = Append(@, ContactEvent(j, g.snakes[j],
                                                         g.player, r.player))]
    ELSE g

RECURSIVE SnakesForEachPlayer(_, _, _)
SnakesForEachPlayer(g, playerBounds, j) ==
    IF j > Len(g.snakes) THEN g
    ELSE SnakesForEachPlayer(SnakeMeetsPlayer(g, playerBounds, j),
                             playerBounds, j + 1)

\* Game.checkCollisions()
checkCollisions(g) ==
    LET playerBounds == getCollisionBounds(g.player)
    IN  SnakesForEachPlayer(BulletsForEach(g, 1), playerBounds, 1)

spawnSnakesUncapped(g, currentTime, in) ==
    LET difficulty == getDifficultyInfo(g.leveling)
    IN  IF currentTime - g.lastSpawnTime >= difficulty.spawnRate
        THEN [g EXCEPT !.snakes = Append(@, NewSnake(in.at, g.leveling.level,
                                                     in.size, in.speed)),
                       !.lastSpawnTime = currentTime]
        ELSE g

spawnSnakesFrozenUnderFreeze(g, currentTime, in) ==
    LET difficulty == getDifficultyInfo(g.leveling)
    IN  IF /\ currentTime - g.lastSpawnTime >= difficulty.spawnRate
           /\ Len(g.snakes) < difficulty.maxSnakes
        THEN [g EXCEPT !.snakes =
                 Append(@, [NewSnake(in.at, g.leveling.level, in.size,
                                     in.speed)
                               EXCEPT !.frozen =
                                   MapHas(g.activePowerups, "freezeSnakes")]),
                       !.lastSpawnTime = currentTime]
        ELSE g

\* Game.spawnSnakes(currentTime); in.at, in.size, in.speed are the random
\* draws of the Snake constructor
spawnSnakes(g, currentTime, in) ==
    LET difficulty == getDifficultyInfo(g.leveling)
    IN  IF /\ currentTime - g.lastSpawnTime >= difficulty.spawnRate
           /\ Len(g.snakes) < difficulty.maxSnakes
        THEN [g EXCEPT !.snakes = Append(@, NewSnake(in.at, g.leveling.level,
                                                     in.size, in.speed)),
                       !.lastSpawnTime = currentTime]
        ELSE g

\* this.bullets.filter(bullet => { bullet.update(...); return bullet.active })
UpdateBullets(bs, deltaTime) ==
    SelectSeq([i \in 1..Len(bs) |->
                  BulletUpdate(bs[i], deltaTime, CANVAS_WIDTH, CANVAS_HEIGHT)],
              LAMBDA b : b.active)

\* Game.endGame()
endGame(g) == [g EXCEPT !.running = FALSE, !.gameOver = TRUE]

UpdateSpawnsLast(g, deltaTime, currentTime, in) ==
    LET r  == PlayerUpdate(g.player, deltaTime, CANVAS_WIDTH, CANVAS_HEIGHT,
                           DateNow(currentTime), in.jitter)
        g1 == [g EXCEPT !.player = r.player,
                        !.bullets = @ \o r.bullets,
                        !.events = <<>>]
        g2 == PowerupUpdate(g1, deltaTime)
        g4 == [g2 EXCEPT !.bullets = UpdateBullets(@, deltaTime)]
        g5 == [g4 EXCEPT !.snakes =
                  [j \in 1..Len(g4.snakes) |->
                      SnakeUpdate(g4.snakes[j], deltaTime,
                                  g4.player.x, g4.player.y, in.wobble)]]
        g6 == checkCollisions(g5)
        g7 == [g6 EXCEPT !.snakes = SelectSeq(@, LAMBDA s : s.active)]
        g8 == spawnSnakes(g7, currentTime, in)
    IN  IF ~g8.player.active THEN endGame(g8) ELSE g8

\* Game.update(deltaTime, currentTime)
Update(g, deltaTime, currentTime, in) ==
    LET r  == PlayerUpdate(g.player, deltaTime, CANVAS_WIDTH, CANVAS_HEIGHT,
                           DateNow(currentTime), in.jitter)
        g1 == [g EXCEPT !.player = r.player,
                        !.bullets = @ \o r.bullets,
                        !.events = <<>>]
        g2 == PowerupUpdate(g1, deltaTime)
        g3 == spawnSnakes(g2, currentTime, in)
        g4 == [g3 EXCEPT !.bullets = UpdateBullets(@, deltaTime)]
        g5 == [g4 EXCEPT !.snakes =
                  [j \in 1..Len(g4.snakes) |->
                      SnakeUpdate(g4.snakes[j], deltaTime,
                                  g4.player.x, g4.player.y, in.wobble)]]
        g6 == checkCollisions(g5)
        g7 == [g6 EXCEPT !.snakes = SelectSeq(@, LAMBDA s : s.active)]
    IN  IF ~g7.player.active THEN endGame(g7) ELSE g7

gameLoopUncapped(g, currentTime, in) ==
    IF ~g.running THEN g
    ELSE LET deltaTime == currentTime - g.lastTime
             g1 == Update([g EXCEPT !.lastTime = currentTime],
                          deltaTime, currentTime, in)
         IN  [g1 EXCEPT !.rafQueue = @ + 1]

gameLoopThoughStopped(g, currentTime, in) ==
    LET deltaTime == currentTime - g.lastTime
        cappedDelta == Min(deltaTime, 100)
        g1 == Update([g EXCEPT !.lastTime = currentTime],
                     cappedDelta, currentTime, in)
    IN  [g1 EXCEPT !.rafQueue = @ + 1]

\* Game.gameLoop(currentTime), one requestAnimationFrame callback
gameLoop(g, currentTime, in) ==
    IF ~g.running THEN g
    ELSE LET deltaTime == currentTime - g.lastTime
             cappedDelta == Min(deltaTime, 100)
             g1 == Update([g EXCEPT !.lastTime = currentTime],
                          cappedDelta, currentTime, in)
         IN  [g1 EXCEPT !.rafQueue = @ + 1]

\* the callbacks requested for an animation frame, run in turn at one
\* timestamp
RECURSIVE RunCallbacks(_, _, _, _)
RunCallbacks(g, n, currentTime, in) ==
    IF n = 0 THEN g
    ELSE RunCallbacks(gameLoop(g, currentTime, in), n - 1, currentTime, in)

startKeepsPowerups(g, now) ==
    LET fresh == NewPlayer(CANVAS_WIDTH \div 2, CANVAS_HEIGHT \div 2)
    IN  [g EXCEPT !.player = fresh,
                  !.bullets = <<>>,
                  !.snakes = <<>>,
                  !.leveling = NewLeveling,
                  !.points = 0,
                  !.events = <<>>,
                  !.running = TRUE,
                  !.gameOver = FALSE,
                  !.lastTime = now,
                  !.lastSpawnTime = now,
                  !.rafQueue = @ + 1]

\* Game.start() at time now
start(g, now) ==
    LET fresh == NewPlayer(CANVAS_WIDTH \div 2, CANVAS_HEIGHT \div 2)
        g1 == [g EXCEPT !.player = fresh,
                        !.bullets = <<>>,
                        !.snakes = <<>>,
                        !.leveling = NewLeveling]
        g2 == PowerupReset(g1)
    IN  [g2 EXCEPT !.points = 0,
                   !.events = <<>>,
                   !.running = TRUE,
                   !.gameOver = FALSE,
                   !.lastTime = now,
                   !.lastSpawnTime = now,
                   !.rafQueue = @ + 1]

handlePowerupActivationOverdraws(g, packId) ==
    IF ~g.running \/ g.gameOver THEN g
    ELSE IF packId \notin PackIds THEN g
    ELSE LET pack == POWER_PACKS[packId]
         IN  IF hasActivePowerup(g.activePowerups) THEN g
             ELSE PowerupActivate([g EXCEPT !.points = @ - pack.cost], pack)

handlePowerupActivationNoActiveCheck(g, packId) ==
    IF ~g.running \/ g.gameOver THEN g
    ELSE IF packId \notin PackIds THEN g
    ELSE LET pack == POWER_PACKS[packId]
         IN  IF g.points < pack.cost THEN g
             ELSE PowerupActivate([g EXCEPT !.points = @ - pack.cost], pack)

handlePowerupActivationDebitsFirst(g, packId) ==
    IF ~g.running \/ g.gameOver THEN g
    ELSE IF packId \notin PackIds THEN g
    ELSE LET pack == POWER_PACKS[packId]
             g1 == [g EXCEPT !.points = @ - pack.cost]
         IN  IF g.points < pack.cost THEN g
             ELSE IF hasActivePowerup(g.activePowerups) THEN g1
             ELSE PowerupActivate(g1, pack)

\* Game.handlePowerupActivation(packId)
handlePowerupActivation(g, packId) ==
    IF ~g.running \/ g.gameOver THEN g
    ELSE IF packId \notin PackIds THEN g
    ELSE LET pack == POWER_PACKS[packId]
         IN  IF g.points < pack.cost THEN g
             ELSE IF hasActivePowerup(g.activePowerups) THEN g
             ELSE PowerupActivate([g EXCEPT !.points = @ - pack.cost], pack)

(***************************************************************************)
(* The leveling system driven alone: any sequence of addXp calls with      *)
(* non-negative amounts, and reset.                                        *)
(***************************************************************************)
XpAmounts == {0, 10, 99, 100, 382, 900, 901, 30000}

NoCall == [amount |-> 0, xp |-> 0, level |-> 1]
NoProbe == [c1 |-> [x |-> 0, y |-> 0, radius |-> 0],
            c2 |-> [x |-> 0, y |-> 0, radius |-> 0],
            applied |-> FALSE, result |-> FALSE]

\* the rest of a Game as constructed
NoAlly == [null |-> TRUE]
NoOp == [op |-> "none", id |-> "", arg |-> 0, ret |-> FALSE]

NoGame ==
    /\ ally = NoAlly
    /\ call = NoOp
    /\ points = 0
    /\ activePowerups = <<>>
    /\ pendingAllySpawn = FALSE
    /\ running = FALSE
    /\ gameOver = FALSE
    /\ lastTime = 0
    /\ lastSpawnTime = 0
    /\ rafQueue = 0
    /\ events = <<>>
    /\ clock = 0

gameVars == <<points, activePowerups, pendingAllySpawn, running, gameOver,
              lastTime, lastSpawnTime, rafQueue, events, clock, ally>>

\* a Game as constructed: no player, no bullets, no snakes
NoEntities ==
    /\ player = NoPlayer
    /\ bullets = <<>>
    /\ snakes = <<>>
    /\ frames = 0
    /\ NoGame

entityVars == <<player, bullets, snakes, frames, gameVars, call>>
levelingVars == <<leveling, levelUpLog, xpCall>>

InitLeveling ==
    /\ leveling = NewLeveling
    /\ levelUpLog = <<>>
    /\ xpCall = NoCall
    /\ probe = NoProbe
    /\ NoEntities

LvAddXp(amount) ==
    LET r == addXp(leveling, amount)
    IN  /\ leveling.totalKills < MaxKills
        /\ r.lv.level <= MaxLevel
        /\ leveling' = r.lv
        /\ levelUpLog' = r.log
        /\ xpCall' = [amount |-> amount, xp |-> leveling.xp,
                      level |-> leveling.level]
        /\ UNCHANGED <<probe, entityVars>>

LvReset ==
    /\ leveling' = NewLeveling
    /\ levelUpLog' = <<>>
    /\ xpCall' = NoCall
    /\ UNCHANGED <<probe, entityVars>>

NextLeveling ==
    \/ \E amount \in XpAmounts : LvAddXp(amount)
    \/ LvReset

SpecLeveling == InitLeveling /\ [][NextLeveling]_vars

(***************************************************************************)
(* circleCollision applied to pairs of circles: a projectile or the player *)
(* against an enemy, at offsets on both sides of the touching distance.    *)
(***************************************************************************)
ProbeRadii1 == {36, 60, 200}
ProbeRadii2 == {120, 150, 195}
ProbeOffsets == {-210, -168, -126, -1, 0, 1, 126, 127, 168, 169, 210, 211,
                 350, 351}

ProbeInputs ==
    {[c1 |-> [x |-> 6000, y |-> 4000, radius |-> r1],
      c2 |-> [x |-> 6000 + dx, y |-> 4000 + dy, radius |-> r2],
      applied |-> FALSE, result |-> FALSE] :
        r1 \in ProbeRadii1, r2 \in ProbeRadii2,
        dx \in ProbeOffsets, dy \in ProbeOffsets}

InitGeom ==
    /\ leveling = NewLeveling
    /\ levelUpLog = <<>>
    /\ xpCall = NoCall
    /\ probe \in ProbeInputs
    /\ NoEntities

GeomCollide ==
    /\ ~probe.applied
    /\ probe' = [probe EXCEPT !.applied = TRUE,
                              !.result = circleCollision(probe.c1, probe.c2)]
    /\ UNCHANGED <<levelingVars, entityVars>>

NextGeom == GeomCollide

SpecGeom == InitGeom /\ [][NextGeom]_vars

(***************************************************************************)
(* A Player driven alone: any sequence of takeDamage, heal and update      *)
(* calls, with the shield flag set and cleared.                            *)
(***************************************************************************)
DamageAmounts == {0, 12, 14, 25, 150}
HealAmounts == {0, 20, 150}
UpdateDeltas == {100, 1000}

InitPlayer ==
    /\ leveling = NewLeveling
    /\ levelUpLog = <<>>
    /\ xpCall = NoCall
    /\ probe = NoProbe
    /\ player = NewPlayer(CANVAS_WIDTH \div 2, CANVAS_HEIGHT \div 2)
    /\ bullets = <<>>
    /\ snakes = <<>>
    /\ frames = 0
    /\ NoGame

PlTakeDamage(damage) ==
    LET r == PlayerTakeDamage(player, damage)
    IN  /\ player' = r.player
        /\ call' = [op |-> "takeDamage", id |-> "", arg |-> damage,
                    ret |-> r.died]
        /\ UNCHANGED <<levelingVars, probe, bullets, snakes, frames,
                       gameVars>>

PlHeal(amount) ==
    /\ player' = PlayerHeal(player, amount)
    /\ call' = [op |-> "heal", id |-> "", arg |-> amount, ret |-> FALSE]
    /\ UNCHANGED <<levelingVars, probe, bullets, snakes, frames, gameVars>>

PlUpdate(deltaTime) ==
    LET r == PlayerUpdate(player, deltaTime, CANVAS_WIDTH, CANVAS_HEIGHT, 0, 0)
    IN  /\ player' = r.player
        /\ bullets' = bullets \o r.bullets
        /\ call' = [op |-> "update", id |-> "", arg |-> deltaTime,
                    ret |-> r.bullets # <<>>]
        /\ UNCHANGED <<levelingVars, probe, snakes, frames, gameVars>>

PlApplyPowerup(type) ==
    /\ player' = applyPowerup(player, type)
    /\ call' = [op |-> "applyPowerup", id |-> type, arg |-> 0, ret |-> FALSE]
    /\ UNCHANGED <<levelingVars, probe, bullets, snakes, frames, gameVars>>

PlRemovePowerup(type) ==
    /\ player' = removePowerup(player, type)
    /\ call' = [op |-> "removePowerup", id |-> type, arg |-> 0, ret |-> FALSE]
    /\ UNCHANGED <<levelingVars, probe, bullets, snakes, frames, gameVars>>

NextPlayer ==
    \/ \E damage \in DamageAmounts : PlTakeDamage(damage)
    \/ \E amount \in HealAmounts : PlHeal(amount)
    \/ \E deltaTime \in UpdateDeltas : PlUpdate(deltaTime)
    \/ PlApplyPowerup("shield")
    \/ PlRemovePowerup("shield")

SpecPlayer == InitPlayer /\ [][NextPlayer]_vars

(***************************************************************************)
(* A Snake driven alone: constructed at level 1..3 with a size variation,  *)
(* then hit by the damage of the weapons while it is active.               *)
(***************************************************************************)
SizeVariations == {80, 100, 130}
SnakeLevels == {1, 2, 3}
BulletDamages == {WEAPONS[w].damage : w \in WeaponIds}

InitSnake ==
    /\ leveling = NewLeveling
    /\ levelUpLog = <<>>
    /\ xpCall = NoCall
    /\ probe = NoProbe
    /\ player = NoPlayer
    /\ bullets = <<>>
    /\ \E level \in SnakeLevels, size \in SizeVariations :
          snakes = <<NewSnake([x |-> -500, y |-> CANVAS_HEIGHT \div 2],
                              level, size, 100)>>
    /\ frames = 0
    /\ NoGame

SnTakeDamage(damage) ==
    /\ snakes[1].active
    /\ snakes' = <<SnakeTakeDamage(snakes[1], damage).snake>>
    /\ UNCHANGED <<levelingVars, probe, player, bullets, frames, gameVars,
                   call>>

NextSnake == \E damage \in BulletDamages : SnTakeDamage(damage)

SpecSnake == InitSnake /\ [][NextSnake]_vars

(***************************************************************************)
(* A Bullet driven alone: fired near an edge of the playfield in one of    *)
(* the eight compass directions, then updated; no enemy is in its way.     *)
(***************************************************************************)
EdgeOffsets == {0, 200, 1100, 1150, 1200, 1201, 1500}
Directions ==
    {UnitVec(dx, dy) : dx \in {-1, 0, 1}, dy \in {-1, 0, 1}} \
        {UnitVec(0, 0)}
BulletWeapons == {"pistol", "tank"}
NoModifiers == [f \in PowerupFlags |-> FALSE]

\* points within the playfield at the offsets from its four edges
EdgePoints ==
    {[x |-> o, y |-> CANVAS_HEIGHT \div 2] : o \in EdgeOffsets}
    \cup {[x |-> CANVAS_WIDTH - o, y |-> CANVAS_HEIGHT \div 2] :
            o \in EdgeOffsets}
    \cup {[x |-> CANVAS_WIDTH \div 2, y |-> o] : o \in EdgeOffsets}
    \cup {[x |-> CANVAS_WIDTH \div 2, y |-> CANVAS_HEIGHT - o] :
            o \in EdgeOffsets}

InitBullet ==
    /\ leveling = NewLeveling
    /\ levelUpLog = <<>>
    /\ xpCall = NoCall
    /\ probe = NoProbe
    /\ player = NoPlayer
    /\ snakes = <<>>
    /\ \E at \in EdgePoints, dir \in Directions, w \in BulletWeapons :
          bullets = <<NewBullet(at.x, at.y, dir, WEAPONS[w], NoModifiers)>>
    /\ frames = 0
    /\ NoGame

BuUpdate(deltaTime) ==
    /\ frames < MaxFrames
    /\ frames' = frames + 1
    /\ bullets' = <<BulletUpdate(bullets[1], deltaTime,
                                 CANVAS_WIDTH, CANVAS_HEIGHT)>>
    /\ UNCHANGED <<levelingVars, probe, player, snakes, gameVars, call>>

NextBullet == \E deltaTime \in {16, 100} : BuUpdate(deltaTime)

SpecBullet == InitBullet /\ [][NextBullet]_vars

(***************************************************************************)
(* The Game driven by its event handlers and by animation frames.  A run   *)
(* starts from the Game as constructed (menu shown) or from a moment of a  *)
(* game in progress: the player at the centre, never hit or hit before,    *)
(* with enemies that have closed in on it.  The touch handlers write the   *)
(* pointer fields the mouse handlers write and are not driven here; input  *)
(* stops with the last frame of a run.                                     *)
(***************************************************************************)
GameState ==
    [player |-> player, bullets |-> bullets, snakes |-> snakes,
     leveling |-> leveling, levelUpLog |-> levelUpLog, xpCall |-> xpCall,
     points |-> points, activePowerups |-> activePowerups,
     pendingAllySpawn |-> pendingAllySpawn, running |-> running,
     gameOver |-> gameOver, lastTime |-> lastTime,
     lastSpawnTime |-> lastSpawnTime, rafQueue |-> rafQueue,
     events |-> events]

Becomes(g) ==
    /\ player' = g.player
    /\ bullets' = g.bullets
    /\ snakes' = g.snakes
    /\ leveling' = g.leveling
    /\ levelUpLog' = g.levelUpLog
    /\ xpCall' = g.xpCall
    /\ points' = g.points
    /\ activePowerups' = g.activePowerups
    /\ pendingAllySpawn' = g.pendingAllySpawn
    /\ running' = g.running
    /\ gameOver' = g.gameOver
    /\ lastTime' = g.lastTime
    /\ lastSpawnTime' = g.lastSpawnTime
    /\ rafQueue' = g.rafQueue
    /\ events' = g.events

\* the inputs tried
GameKeys == {"d", "3", "Space"}
AimPoints == {[x |-> CANVAS_WIDTH, y |-> CANVAS_HEIGHT \div 2]}
FrameGaps == {16, 1500}
Wobbles == {0, 10}
SpawnPoints == {[x |-> -500, y |-> CANVAS_HEIGHT \div 2]}
SpawnSizes == {100}
FrameInputs ==
    {[wobble |-> wb, at |-> at, size |-> size, speed |-> 100, jitter |-> 0] :
        wb \in Wobbles, at \in SpawnPoints, size \in SpawnSizes}

\* an enemy of level 1 that has moved to the point at, heading for the player
SnakeAt(at, size) ==
    LET s == NewSnake(at, 1, size, 100)
        u == UnitVec(CANVAS_WIDTH \div 2 - at.x, CANVAS_HEIGHT \div 2 - at.y)
    IN  [s EXCEPT !.vx = TDiv(u.x * s.speed, 1000),
                  !.vy = TDiv(u.y * s.speed, 1000)]

\* enemies in the line of fire to the east of the player, and one about to
\* touch it
SnakeLayouts ==
    LET a == [x |-> 6800, y |-> 4024]
        b == [x |-> 6700, y |-> 4100]
        c == [x |-> 6360, y |-> 4000]
    IN  [none |-> <<>>,
         far |-> <<SnakeAt(a, 100)>>,
         near |-> <<SnakeAt(c, 100)>>,
         two |-> <<SnakeAt(a, 100), SnakeAt(b, 100)>>,
         mixed |-> <<SnakeAt(a, 80), SnakeAt(b, 130)>>,
         both |-> <<SnakeAt(a, 100), SnakeAt(c, 100)>>]

\* the moments a run may start from: the player's health, the kills so far
\* (none of them spent) and the enemies around
Snapshots ==
    {[health |-> 100, kills |-> 0, snakes |-> SnakeLayouts[l]] :
        l \in DOMAIN SnakeLayouts}
    \cup {[health |-> 10, kills |-> 0, snakes |-> SnakeLayouts.near],
          [health |-> 10, kills |-> 4, snakes |-> SnakeLayouts.far],
          [health |-> 100, kills |-> 4, snakes |-> SnakeLayouts.both],
          [health |-> 100, kills |-> 20, snakes |-> SnakeLayouts.far],
          [health |-> 10, kills |-> 20, snakes |-> SnakeLayouts.near]}

\* the leveling system after n kills of level-1 enemies
RECURSIVE AfterKills(_)
AfterKills(n) ==
    IF n = 0 THEN NewLeveling
    ELSE addXp(AfterKills(n - 1),
               NewSnake([x |-> 0, y |-> 0], 1, 100, 100).xpValue).lv

InitGame ==
    /\ probe = NoProbe
    /\ ally = NoAlly
    /\ call = NoOp
    /\ levelUpLog = <<>>
    /\ xpCall = NoCall
    /\ bullets = <<>>
    /\ frames = 0
    /\ activePowerups = <<>>
    /\ pendingAllySpawn = FALSE
    /\ gameOver = FALSE
    /\ events = <<>>
    /\ \/ /\ running = FALSE
          /\ player = NoPlayer
          /\ snakes = <<>>
          /\ leveling = NewLeveling
          /\ points = 0
          /\ clock = 0
          /\ lastTime = 0
          /\ lastSpawnTime = 0
          /\ rafQueue = 0
       \/ /\ running = TRUE
          /\ \E m \in Snapshots :
                /\ player = [NewPlayer(CANVAS_WIDTH \div 2,
                                       CANVAS_HEIGHT \div 2)
                                EXCEPT !.health = m.health]
                /\ snakes = m.snakes
                /\ leveling = AfterKills(m.kills)
                /\ points = m.kills
          /\ clock = SnapshotTime
          /\ lastTime = SnapshotTime
          /\ lastSpawnTime = SnapshotTime
          /\ rafQueue = 1

\* click on #start-btn, shown with the main menu
ClickStart ==
    /\ frames < MaxTicks
    /\ ~running /\ ~gameOver
    /\ Becomes(start(GameState, clock))
    /\ UNCHANGED <<probe, frames, clock, ally, call>>

\* click on #restart-btn, shown with the game-over screen
ClickRestart ==
    /\ frames < MaxTicks
    /\ gameOver
    /\ Becomes(start(GameState, clock))
    /\ UNCHANGED <<probe, frames, clock, ally, call>>

\* Game.handleKeyDown(e); "Space" is the key whose code is Space
KeyDown(key) ==
    LET g == GameState
        g1 == IF HasPlayer(g.player) /\ g.running
              THEN LET p == handleKeyInput(g.player, key, TRUE)
                   IN  [g EXCEPT !.player =
                           IF key = "1" THEN setWeapon(p, WEAPONS.pistol.id)
                           ELSE IF key = "2" THEN setWeapon(p, WEAPONS.rapid.id)
                           ELSE IF key = "3"
                           THEN setWeapon(p, WEAPONS.shotgun.id)
                           ELSE IF key = "4" THEN setWeapon(p, WEAPONS.tank.id)
                           ELSE p]
              ELSE g
        g2 == IF key = "Space" /\ g1.gameOver THEN start(g1, clock) ELSE g1
    IN  /\ frames < MaxTicks
        /\ Becomes(g2)
        /\ UNCHANGED <<probe, frames, clock, ally, call>>

\* Game.handleKeyUp(e)
KeyUp(key) ==
    /\ frames < MaxTicks
    /\ Becomes(IF HasPlayer(player) /\ running
               THEN [GameState EXCEPT
                        !.player = handleKeyInput(player, key, FALSE)]
               ELSE GameState)
    /\ UNCHANGED <<probe, frames, clock, ally, call>>

\* Game.handleMouseMove(e), the pointer at the canvas point at
MouseMove(at) ==
    /\ frames < MaxTicks
    /\ Becomes(IF HasPlayer(player) /\ running
               THEN [GameState EXCEPT
                        !.player = handleMouseInput(player, at.x, at.y,
                                                    <<>>)]
               ELSE GameState)
    /\ UNCHANGED <<probe, frames, clock, ally, call>>

\* Game.handleMouseDown(e) of the left button
MouseDown(at) ==
    /\ frames < MaxTicks
    /\ Becomes(IF HasPlayer(player) /\ running
               THEN [GameState EXCEPT
                        !.player = handleMouseInput(player, at.x, at.y,
                                                    <<TRUE>>)]
               ELSE GameState)
    /\ UNCHANGED <<probe, frames, clock, ally, call>>

\* Game.handleMouseUp(e) of the left button
MouseUp ==
    /\ frames < MaxTicks
    /\ Becomes(IF HasPlayer(player)
               THEN [GameState EXCEPT
                        !.player = handleMouseInput(player, player.mouseX,
                                                    player.mouseY, <<FALSE>>)]
               ELSE GameState)
    /\ UNCHANGED <<probe, frames, clock, ally, call>>

\* click on a power pack of the toolbar
PowerupClick(packId) ==
    /\ frames < MaxTicks
    /\ Becomes(handlePowerupActivation(GameState, packId))
    /\ UNCHANGED <<probe, frames, clock, ally, call>>

\* an animation frame gap ms after the last event: every callback requested
\* so far runs with the frame's timestamp
AnimationFrame(gap, in) ==
    /\ frames < MaxTicks
    /\ rafQueue > 0
    /\ frames' = frames + 1
    /\ clock' = clock + gap
    /\ Becomes(RunCallbacks([GameState EXCEPT !.rafQueue = 0], rafQueue,
                            clock + gap, in))
    /\ UNCHANGED <<probe, ally, call>>

NextGame ==
    \/ ClickStart
    \/ ClickRestart
    \/ \E key \in GameKeys : KeyDown(key)
    \/ \E key \in GameKeys : KeyUp(key)
    \/ \E at \in AimPoints : MouseMove(at)
    \/ \E at \in AimPoints : MouseDown(at)
    \/ MouseUp
    \/ \E packId \in PackIds : PowerupClick(packId)
    \/ \E gap \in FrameGaps, in \in FrameInputs : AnimationFrame(gap, in)

SpecGame == InitGame /\ [][NextGame]_vars

(***************************************************************************)
(* The PowerupManager driven alone, with a player and two enemies on their *)
(* way from the edges: packs are activated in any order, also while        *)
(* active, timers are run down by ticks, and the manager is reset.  A tick *)
(* is the two steps of Game.update that the manager's effects show in: the *)
(* manager's update, then the update of every enemy.                       *)
(***************************************************************************)
TickDeltas == {100, 2500}
TickPacks == {"freezeSnakes", "shield"}

\* remaining time of the entry id of the active map, 0 when there is none
Remaining(m, id) ==
    IF MapHas(m, id)
    THEN (CHOOSE e \in {m[i] : i \in 1..Len(m)} : e.id = id).remainingTime
    ELSE 0

PowerupTick(g, deltaTime, wobble) ==
    LET g1 == PowerupUpdate(g, deltaTime)
    IN  [g1 EXCEPT !.snakes =
            [j \in 1..Len(g1.snakes) |->
                SnakeUpdate(g1.snakes[j], deltaTime, g1.player.x, g1.player.y,
                            wobble)]]

InitPowerup ==
    /\ leveling = NewLeveling
    /\ levelUpLog = <<>>
    /\ xpCall = NoCall
    /\ probe = NoProbe
    /\ player = NewPlayer(CANVAS_WIDTH \div 2, CANVAS_HEIGHT \div 2)
    /\ bullets = <<>>
    /\ snakes = [j \in 1..2 |->
                    NewSnake(IF j = 1
                             THEN [x |-> -500, y |-> CANVAS_HEIGHT \div 2]
                             ELSE [x |-> CANVAS_WIDTH \div 2, y |-> -500],
                             1, 100, 100)]
    /\ frames = 0
    /\ NoGame

PmActivate(packId) ==
    /\ frames < MaxFrames
    /\ Becomes(PowerupActivate(GameState, POWER_PACKS[packId]))
    /\ call' = [op |-> "activate", id |-> packId,
                arg |-> Remaining(activePowerups, packId),
                ret |-> MapHas(activePowerups, packId)]
    /\ UNCHANGED <<probe, frames, clock, ally>>

\* ret: whether an entry expired (changed); id: freezeSnakes when it did
PmTick(deltaTime, wobble) ==
    LET g == PowerupTick(GameState, deltaTime, wobble)
    IN  /\ frames < MaxFrames
        /\ frames' = frames + 1
        /\ Becomes(g)
        /\ call' = [op |-> "tick",
                    id |-> IF /\ MapHas(activePowerups, "freezeSnakes")
                              /\ ~MapHas(g.activePowerups, "freezeSnakes")
                           THEN "freezeSnakes" ELSE "",
                    arg |-> deltaTime,
                    ret |-> Len(g.activePowerups) < Len(activePowerups)]
        /\ UNCHANGED <<probe, clock, ally>>

PmReset ==
    /\ frames < MaxFrames
    /\ Becomes(PowerupReset(GameState))
    /\ call' = [op |-> "reset", id |-> "", arg |-> 0, ret |-> FALSE]
    /\ UNCHANGED <<probe, frames, clock, ally>>

NextPowerup ==
    \/ \E packId \in TickPacks : PmActivate(packId)
    \/ \E deltaTime \in TickDeltas, wobble \in Wobbles :
          PmTick(deltaTime, wobble)
    \/ PmReset

SpecPowerup == InitPowerup /\ [][NextPowerup]_vars

(***************************************************************************)
(* Ally (the NPC ally class).  Times are ms, despawnFade is in             *)
(* thousandths.  rotation is the direction last aimed in, with the angle   *)
(* turned since while idle (idle, in milliradians).  Pulse, muzzle flash,  *)
(* recoil recovery and colours are drawing state; the recoil offset at the *)
(* moment of a shot is always 4 px.                                        *)
(***************************************************************************)
\* new Ally(canvasWidth, canvasHeight, playerWeapon), x the random draw
NewAlly(x, weaponId) ==
    [x |-> x, y |-> -600,
     landingY |-> (CANVAS_HEIGHT * 6) \div 10,
     radius |-> (PLAYER_RADIUS * 9) \div 10,
     speed |-> (PLAYER_SPEED * 7) \div 10,
     state |-> "descending",
     active |-> TRUE,
     landingDustTime |-> 0,
     weapon |-> weaponId,
     shootCooldown |-> (WEAPONS[weaponId].fireRate * 13) \div 10,
     lastShootTime |-> 0,
     rotation |-> [x |-> 1000, y |-> 0, idle |-> 0],
     timeAlive |-> 0,
     despawnFade |-> 1000]

updateDescendingStraightToActive(a, deltaTime, swing) ==
    LET y == a.y + TDiv(1200 * deltaTime, 1000)
        x == clamp(a.x + TDiv(swing * deltaTime, 5000),
                   800, CANVAS_WIDTH - 800)
    IN  IF y >= a.landingY
        THEN [a EXCEPT !.x = x, !.y = a.landingY, !.state = "active",
                       !.landingDustTime = 400]
        ELSE [a EXCEPT !.x = x, !.y = y]

\* Ally.updateDescending(deltaTime); swing is Math.sin(parachuteSwing) in
\* thousandths
updateDescending(a, deltaTime, swing) ==
    LET y == a.y + TDiv(1200 * deltaTime, 1000)
        x == clamp(a.x + TDiv(swing * deltaTime, 5000),
                   800, CANVAS_WIDTH - 800)
    IN  IF y >= a.landingY
        THEN [a EXCEPT !.x = x, !.y = a.landingY, !.state = "landing",
                       !.landingDustTime = 400]
        ELSE [a EXCEPT !.x = x, !.y = y]

updateLandingLate(a, deltaTime) ==
    LET t == a.landingDustTime - deltaTime
    IN  IF t <= -400
        THEN [a EXCEPT !.landingDustTime = t, !.state = "active",
                       !.timeAlive = 0]
        ELSE [a EXCEPT !.landingDustTime = t]

\* Ally.updateLanding(deltaTime)
updateLanding(a, deltaTime) ==
    LET t == a.landingDustTime - deltaTime
    IN  IF t <= 0
        THEN [a EXCEPT !.landingDustTime = t, !.state = "active",
                       !.timeAlive = 0]
        ELSE [a EXCEPT !.landingDustTime = t]

RECURSIVE findNearestSnakeLastWins(_, _, _)
findNearestSnakeLastWins(a, ss, k) ==
    IF k = 0 THEN 0
    ELSE LET n == findNearestSnakeLastWins(a, ss, k - 1)
             d2(j) == (ss[j].x - a.x) * (ss[j].x - a.x)
                         + (ss[j].y - a.y) * (ss[j].y - a.y)
         IN  IF ~ss[k].active THEN n
             ELSE IF n = 0 THEN k
             ELSE IF d2(k) <= d2(n) THEN k
             ELSE n

\* the index of the snake Ally.findNearestSnake(snakes) returns among
\* ss[1..k], 0 for null: the first of the active snakes at the least distance
RECURSIVE findNearestSnake(_, _, _)
findNearestSnake(a, ss, k) ==
    IF k = 0 THEN 0
    ELSE LET n == findNearestSnake(a, ss, k - 1)
             d2(j) == (ss[j].x - a.x) * (ss[j].x - a.x)
                         + (ss[j].y - a.y) * (ss[j].y - a.y)
         IN  IF ~ss[k].active THEN n
             ELSE IF n = 0 THEN k
             ELSE IF d2(k) < d2(n) THEN k
             ELSE n

\* Ally.canShoot() at Date.now() = now
AllyCanShoot(a, now) == now - a.lastShootTime >= a.shootCooldown

\* the bullets of Ally.shoot(), in array order; jitter is the random spread
\* of a single shot, in milliradians
AllyShoot(a, jitter) ==
    LET w == WEAPONS[a.weapon]
        gunEndX == a.x + TDiv(a.rotation.x * 220, 1000)
        gunEndY == a.y + TDiv(a.rotation.y * 220, 1000)
        spawnX == gunEndX + TDiv(a.rotation.y * (-24), 1000)
        spawnY == gunEndY + TDiv((-a.rotation.x) * (-24), 1000)
        dir == [x |-> a.rotation.x, y |-> a.rotation.y]
    IN  IF w.count > 1
        THEN LET step == w.spread \div (w.count - 1)
             IN  [i \in 1..w.count |->
                    NewBullet(spawnX, spawnY,
                              Rotate(dir, step * (i - 1) - w.spread \div 2),
                              w, NoModifiers)]
        ELSE <<NewBullet(spawnX, spawnY,
                         Rotate(dir, IF w.spread = 0 THEN 0 ELSE jitter),
                         w, NoModifiers)>>

updateActiveShootsOnExpiry(a, deltaTime, ss, now, jitter) ==
    LET timeAlive == a.timeAlive + deltaTime
    IN  IF timeAlive >= 12000
        THEN [ally |-> [a EXCEPT !.timeAlive = timeAlive,
                                 !.state = "despawning",
                                 !.despawnFade = 1000,
                                 !.lastShootTime = now],
              bullets |-> AllyShoot(a, jitter)]
        ELSE [ally |-> [a EXCEPT !.timeAlive = timeAlive],
              bullets |-> <<>>]

\* Ally.updateActive(deltaTime, snakes) at Date.now() = now: the ally after
\* the call and the bullets returned (none: null)
updateActive(a, deltaTime, ss, now, jitter) ==
    LET timeAlive == a.timeAlive + deltaTime
        n == findNearestSnake(a, ss, Len(ss))
    IN  IF timeAlive >= 12000
        THEN [ally |-> [a EXCEPT !.timeAlive = timeAlive,
                                 !.state = "despawning",
                                 !.despawnFade = 1000],
              bullets |-> <<>>]
        ELSE IF n = 0
        THEN [ally |-> [a EXCEPT !.timeAlive = timeAlive,
                                 !.rotation.idle = @ + deltaTime \div 2],
              bullets |-> <<>>]
        ELSE LET t == ss[n]
                 rotation == UnitVec(t.x - a.x, t.y - a.y)
                 dist == distance(a.x, a.y, t.x, t.y)
                 toward == UnitVec(t.x - a.x, t.y - a.y)
                 away == UnitVec(a.x - t.x, a.y - t.y)
                 x == IF ~DistLessEq(dist, 1500)
                      THEN a.x + TDiv(TDiv(toward.x * a.speed, 1000) * deltaTime,
                                      1000)
                      ELSE IF DistLess(dist, 1050)
                      THEN a.x + TDiv(TDiv(away.x * (a.speed \div 2), 1000)
                                          * deltaTime, 1000)
                      ELSE a.x
                 y == IF ~DistLessEq(dist, 1500)
                      THEN a.y + TDiv(TDiv(toward.y * a.speed, 1000) * deltaTime,
                                      1000)
                      ELSE IF DistLess(dist, 1050)
                      THEN a.y + TDiv(TDiv(away.y * (a.speed \div 2), 1000)
                                          * deltaTime, 1000)
                      ELSE a.y
                 moved == [a EXCEPT
                              !.timeAlive = timeAlive,
                              !.rotation = [x |-> rotation.x,
                                            y |-> rotation.y, idle |-> 0],
                              !.x = clamp(x, a.radius,
                                          CANVAS_WIDTH - a.radius),
                              !.y = clamp(y, a.radius,
                                          CANVAS_HEIGHT - a.radius)]
             IN  IF AllyCanShoot(moved, now)
                 THEN [ally |-> [moved EXCEPT !.lastShootTime = now],
                       bullets |-> AllyShoot(moved, jitter)]
                 ELSE [ally |-> moved, bullets |-> <<>>]

\* Ally.updateDespawning(deltaTime)
updateDespawning(a, deltaTime) ==
    LET fade == a.despawnFade - 2 * deltaTime
    IN  IF fade <= 0
        THEN [a EXCEPT !.despawnFade = 0, !.active = FALSE,
                       !.state = "inactive"]
        ELSE [a EXCEPT !.despawnFade = fade]

\* Ally.update(deltaTime, snakes) at Date.now() = now: the ally after the
\* call and the bullets returned (none: null)
AllyUpdate(a, deltaTime, ss, now, swing, jitter) ==
    IF ~a.active THEN [ally |-> a, bullets |-> <<>>]
    ELSE IF a.state = "descending"
    THEN [ally |-> updateDescending(a, deltaTime, swing), bullets |-> <<>>]
    ELSE IF a.state = "landing"
    THEN [ally |-> updateLanding(a, deltaTime), bullets |-> <<>>]
    ELSE IF a.state = "active"
    THEN updateActive(a, deltaTime, ss, now, jitter)
    ELSE IF a.state = "despawning"
    THEN [ally |-> updateDespawning(a, deltaTime), bullets |-> <<>>]
    ELSE [ally |-> a, bullets |-> <<>>]

(***************************************************************************)
(* An Ally driven alone: constructed with the pistol or the shotgun, then  *)
(* updated with frames of any length and any of a few lists of enemies.    *)
(* bullets holds what the last update returned, call its arguments and the *)
(* state it found.                                                         *)
(***************************************************************************)
MaxAllyUpdates == 5
AllyDeltas == {100, 500, 5000, 12000}
AllySpawnXs == {6000}
AllyWeapons == {"pistol", "shotgun"}
Swings == {-1000, 1000}
AllySnakeLists ==
    {<<>>,
     <<SnakeAt([x |-> 2000, y |-> 2000], 100)>>,
     <<[SnakeAt([x |-> 6000, y |-> 4900], 100) EXCEPT !.active = FALSE],
       SnakeAt([x |-> 6300, y |-> 5200], 100)>>}

InitAlly ==
    /\ leveling = NewLeveling
    /\ levelUpLog = <<>>
    /\ xpCall = NoCall
    /\ probe = NoProbe
    /\ player = NoPlayer
    /\ bullets = <<>>
    /\ snakes = <<>>
    /\ frames = 0
    /\ points = 0
    /\ activePowerups = <<>>
    /\ pendingAllySpawn = FALSE
    /\ running = FALSE
    /\ gameOver = FALSE
    /\ lastTime = 0
    /\ lastSpawnTime = 0
    /\ rafQueue = 0
    /\ events = <<>>
    /\ clock = 0
    /\ call = NoOp
    /\ \E x \in AllySpawnXs, w \in AllyWeapons : ally = NewAlly(x, w)

AlUpdate(deltaTime, ss, swing) ==
    LET r == AllyUpdate(ally, deltaTime, ss, DateNow(clock + deltaTime),
                        swing, 0)
    IN  /\ frames < MaxAllyUpdates
        /\ frames' = frames + 1
        /\ clock' = clock + deltaTime
        /\ ally' = r.ally
        /\ bullets' = r.bullets
        /\ snakes' = ss
        /\ call' = [op |-> "update", id |-> ally.state, arg |-> deltaTime,
                    ret |-> r.bullets # <<>>]
        /\ UNCHANGED <<leveling, levelUpLog, xpCall, probe, player, points,
                       activePowerups, pendingAllySpawn, running, gameOver,
                       lastTime, lastSpawnTime, rafQueue, events>>

NextAlly ==
    \E deltaTime \in AllyDeltas, ss \in AllySnakeLists, swing \in Swings :
        AlUpdate(deltaTime, ss, swing)

SpecAlly == InitAlly /\ [][NextAlly]_vars

(***************************************************************************)
(* An Ally updated again and again for as long as it is active, with the   *)
(* enemies of one of the lists around it: the caller keeps calling update  *)
(* with a positive frame time, which is the fairness of the                *)
(* specification.                                                          *)
(***************************************************************************)
MaxAllyLife == 36
LifeDeltas == {500, 6000}

InitAllyLife ==
    /\ leveling = NewLeveling
    /\ levelUpLog = <<>>
    /\ xpCall = NoCall
    /\ probe = NoProbe
    /\ player = NoPlayer
    /\ bullets = <<>>
    /\ snakes \in AllySnakeLists
    /\ frames = 0
    /\ points = 0
    /\ activePowerups = <<>>
    /\ pendingAllySpawn = FALSE
    /\ running = FALSE
    /\ gameOver = FALSE
    /\ lastTime = 0
    /\ lastSpawnTime = 0
    /\ rafQueue = 0
    /\ events = <<>>
    /\ clock = 0
    /\ call = NoOp
    /\ \E x \in AllySpawnXs, w \in AllyWeapons : ally = NewAlly(x, w)

AlLifeUpdate(deltaTime, swing) ==
    LET r == AllyUpdate(ally, deltaTime, snakes, DateNow(clock + deltaTime),
                        swing, 0)
    IN  /\ ally.active
        /\ frames < MaxAllyLife
        /\ frames' = frames + 1
        /\ clock' = clock + deltaTime
        /\ ally' = r.ally
        /\ bullets' = r.bullets
        /\ call' = [op |-> "update", id |-> ally.state, arg |-> deltaTime,
                    ret |-> r.bullets # <<>>]
        /\ UNCHANGED <<leveling, levelUpLog, xpCall, probe, player, snakes,
                       points, activePowerups, pendingAllySpawn, running,
                       gameOver, lastTime, lastSpawnTime, rafQueue, events>>

\* the parachute at the end of its swing to the right throughout
NextAllyLife ==
    \E deltaTime \in LifeDeltas : AlLifeUpdate(deltaTime, 1000)

\* the next call is made: a step of NextAllyLife, as far as the count of
\* calls shows it
NextCall == ally.active /\ frames < MaxAllyLife /\ frames' = frames + 1

SpecAllyLife ==
    InitAllyLife /\ [][NextAllyLife]_vars /\ WF_frames(NextCall)

(***************************************************************************)
(* Ally.findNearestSnake applied once: an ally on the ground, and up to    *)
(* three enemies, live or not, at points that are equally far from it two  *)
(* by two.                                                                 *)
(***************************************************************************)
MaxNearSnakes == 3
NearPoints ==
    {[x |-> 6300, y |-> 4800], [x |-> 5700, y |-> 4800],
     [x |-> 6000, y |-> 5300], [x |-> 6500, y |-> 4800]}
NearSnakes ==
    {[SnakeAt(at, 100) EXCEPT !.active = live] :
        at \in NearPoints, live \in BOOLEAN}

InitNearest ==
    /\ leveling = NewLeveling
    /\ levelUpLog = <<>>
    /\ xpCall = NoCall
    /\ probe = NoProbe
    /\ player = NoPlayer
    /\ bullets = <<>>
    /\ \E n \in 0..MaxNearSnakes : snakes \in [1..n -> NearSnakes]
    /\ frames = 0
    /\ points = 0
    /\ activePowerups = <<>>
    /\ pendingAllySpawn = FALSE
    /\ running = FALSE
    /\ gameOver = FALSE
    /\ lastTime = 0
    /\ lastSpawnTime = 0
    /\ rafQueue = 0
    /\ events = <<>>
    /\ clock = 0
    /\ call = NoOp
    /\ ally = [NewAlly(6000, "pistol") EXCEPT !.y = 4800, !.state = "active"]

\* arg: the index of the snake returned, 0 for null
AlFindNearestSnake ==
    /\ call = NoOp
    /\ call' = [op |-> "findNearestSnake", id |-> "",
                arg |-> findNearestSnake(ally, snakes, Len(snakes)),
                ret |-> findNearestSnake(ally, snakes, Len(snakes)) # 0]
    /\ UNCHANGED <<leveling, levelUpLog, xpCall, probe, player, bullets,
                   snakes, frames, points, activePowerups, pendingAllySpawn,
                   running, gameOver, lastTime, lastSpawnTime, rafQueue,
                   events, clock, ally>>

NextNearest == AlFindNearestSnake

SpecNearest == InitNearest /\ [][NextNearest]_vars

(***************************************************************************)
(* The game at its enemy cap, or one below, at levels 1 and 2, with a      *)
(* frame clock that may stall: a frame's timestamp may equal the last      *)
(* time recorded, or lie before it (start takes performance.now(), the     *)
(* callback gets the timestamp of its frame).  The enemies have come a     *)
(* little way from the top edge, and one may be about to touch the player. *)
(***************************************************************************)
StallGaps == {-8, 0, 16, 1500}

\* n enemies in a row below the top edge
Crowd(n) ==
    [j \in 1..n |-> SnakeAt([x |-> 400 + 800 * j, y |-> 300], 100)]

CrowdKills == {0, 10}

InitFrames ==
    /\ probe = NoProbe
    /\ ally = NoAlly
    /\ call = NoOp
    /\ levelUpLog = <<>>
    /\ xpCall = NoCall
    /\ bullets = <<>>
    /\ frames = 0
    /\ activePowerups = <<>>
    /\ pendingAllySpawn = FALSE
    /\ gameOver = FALSE
    /\ events = <<>>
    /\ running = TRUE
    /\ player = NewPlayer(CANVAS_WIDTH \div 2, CANVAS_HEIGHT \div 2)
    /\ \E kills \in CrowdKills :
          /\ leveling = AfterKills(kills)
          /\ points = kills
          /\ \E short \in 0..1, near \in BOOLEAN :
                LET cap == getDifficultyInfo(AfterKills(kills)).maxSnakes
                    crowd == Crowd(cap - short)
                IN  snakes = IF near
                             THEN [crowd EXCEPT ![1] = SnakeLayouts.near[1]]
                             ELSE crowd
    /\ clock = SnapshotTime
    /\ lastTime = SnapshotTime
    /\ lastSpawnTime = SnapshotTime
    /\ rafQueue = 1

NextFrames ==
    \/ \E at \in AimPoints : MouseDown(at)
    \/ \E packId \in TickPacks : PowerupClick(packId)
    \/ \E gap \in StallGaps, in \in FrameInputs : AnimationFrame(gap, in)

SpecFrames == InitFrames /\ [][NextFrames]_vars

(***************************************************************************)
(* The operations that take a weapon id or a power-up id, called on a      *)
(* running game with ids of the tables and ids of no table.  call records  *)
(* the operation and the id it was given.                                  *)
(***************************************************************************)
WeaponArgs == WeaponIds \cup {"laser"}
FlagArgs == {"shield", "rapidFire", "magnet"}
PackArgs == {"shield", "callForHelp", "magnet"}
PowerupArgs ==
    {POWER_PACKS.shield, POWER_PACKS.freezeSnakes,
     [id |-> "magnet", duration |-> 5000, cost |-> 10]}

InitIds ==
    /\ leveling = AfterKills(20)
    /\ levelUpLog = <<>>
    /\ xpCall = NoCall
    /\ probe = NoProbe
    /\ player = NewPlayer(CANVAS_WIDTH \div 2, CANVAS_HEIGHT \div 2)
    /\ bullets = <<>>
    /\ snakes = SnakeLayouts.two
    /\ frames = 0
    /\ ally = NoAlly
    /\ call = NoOp
    /\ points = 20
    /\ activePowerups = <<>>
    /\ pendingAllySpawn = FALSE
    /\ running = TRUE
    /\ gameOver = FALSE
    /\ lastTime = SnapshotTime
    /\ lastSpawnTime = SnapshotTime
    /\ rafQueue = 1
    /\ events = <<>>
    /\ clock = SnapshotTime

IdCall(op, id) == [op |-> op, id |-> id, arg |-> 0, ret |-> FALSE]

IdSetWeapon(weaponId) ==
    /\ Becomes([GameState EXCEPT !.player = setWeapon(@, weaponId)])
    /\ call' = IdCall("setWeapon", weaponId)
    /\ UNCHANGED <<probe, frames, clock, ally>>

IdApplyPowerup(type) ==
    /\ Becomes([GameState EXCEPT !.player = applyPowerup(@, type)])
    /\ call' = IdCall("applyPowerup", type)
    /\ UNCHANGED <<probe, frames, clock, ally>>

IdRemovePowerup(type) ==
    /\ Becomes([GameState EXCEPT !.player = removePowerup(@, type)])
    /\ call' = IdCall("removePowerup", type)
    /\ UNCHANGED <<probe, frames, clock, ally>>

IdHandlePowerupActivation(packId) ==
    /\ Becomes(handlePowerupActivation(GameState, packId))
    /\ call' = IdCall("handlePowerupActivation", packId)
    /\ UNCHANGED <<probe, frames, clock, ally>>

IdActivate(powerup) ==
    /\ Becomes(PowerupActivate(GameState, powerup))
    /\ call' = IdCall("activate", powerup.id)
    /\ UNCHANGED <<probe, frames, clock, ally>>

NextIds ==
    \/ \E weaponId \in WeaponArgs : IdSetWeapon(weaponId)
    \/ \E type \in FlagArgs : IdApplyPowerup(type)
    \/ \E type \in FlagArgs : IdRemovePowerup(type)
    \/ \E packId \in PackArgs : IdHandlePowerupActivation(packId)
    \/ \E powerup \in PowerupArgs : IdActivate(powerup)

SpecIds == InitIds /\ [][NextIds]_vars

(***************************************************************************)
(* A run well under way, at a tick boundary: ten kills made, a pack bought *)
(* with them or not, the pack about to run out or not, and enemies around  *)
(* the player, those that were live when a freeze was bought frozen where  *)
(* they stood.  The player's flag is set for the packs that activate sets  *)
(* it for.                                                                 *)
(***************************************************************************)
\* the active map and the points left of the ten
PackStates ==
    {[map |-> <<>>, points |-> 10]}
    \cup {[map |-> <<[id |-> id, remainingTime |-> t]>>, points |-> 0] :
             id \in {"freezeSnakes", "shield", "fasterGuns"},
             t \in {50, 4000}}

\* one enemy in the line of fire; one on either side about to touch the
\* player; one in the line of fire and one that came in later from the west
Scenes ==
    [lone |-> <<SnakeAt([x |-> 6800, y |-> 4024], 100)>>,
     pair |-> <<SnakeAt([x |-> 6360, y |-> 4000], 100),
                SnakeAt([x |-> 5640, y |-> 4000], 100)>>,
     later |-> <<SnakeAt([x |-> 6800, y |-> 4024], 100),
                 SnakeAt([x |-> 3000, y |-> 4000], 100)>>]

\* the enemies of a scene under the active map m: with a freeze running, all
\* are frozen but the late comer of the scene later
SceneUnder(name, m) ==
    [j \in 1..Len(Scenes[name]) |->
        [Scenes[name][j] EXCEPT
            !.frozen = /\ MapHas(m, "freezeSnakes")
                       /\ ~(name = "later" /\ j = 2)]]

InitExpiry ==
    /\ probe = NoProbe
    /\ ally = NoAlly
    /\ call = NoOp
    /\ levelUpLog = <<>>
    /\ xpCall = NoCall
    /\ bullets = <<>>
    /\ frames = 0
    /\ pendingAllySpawn = FALSE
    /\ gameOver = FALSE
    /\ events = <<>>
    /\ running = TRUE
    /\ leveling = AfterKills(10)
    /\ \E ps \in PackStates, name \in DOMAIN Scenes :
          /\ activePowerups = ps.map
          /\ points = ps.points
          /\ player = [NewPlayer(CANVAS_WIDTH \div 2, CANVAS_HEIGHT \div 2)
                          EXCEPT !.powerups =
                              [f \in PowerupFlags |->
                                  /\ f \in {"shield", "fasterGuns"}
                                  /\ MapHas(ps.map, f)]]
          /\ snakes = SceneUnder(name, ps.map)
    /\ clock = SnapshotTime
    /\ lastTime = SnapshotTime
    /\ lastSpawnTime = SnapshotTime
    /\ rafQueue = 1

NextExpiry ==
    \/ \E at \in AimPoints : MouseDown(at)
    \/ \E packId \in TickPacks : PowerupClick(packId)
    \/ \E gap \in FrameGaps, in \in FrameInputs : AnimationFrame(gap, in)

SpecExpiry == InitExpiry /\ [][NextExpiry]_vars

(***************************************************************************)
(* A Player moved about alone: the direction keys go down and up in any    *)
(* order, and update is called with deltas short and long, and negative    *)
(* (a negative delta moves the player against the keys held).              *)
(***************************************************************************)
MaxMoves == 3
MoveKeys == {"w", "d"}
MoveDeltas == {-5000, 1000, 5000}

InitMove ==
    /\ leveling = NewLeveling
    /\ levelUpLog = <<>>
    /\ xpCall = NoCall
    /\ probe = NoProbe
    /\ player = NewPlayer(CANVAS_WIDTH \div 2, CANVAS_HEIGHT \div 2)
    /\ bullets = <<>>
    /\ snakes = <<>>
    /\ frames = 0
    /\ NoGame

MvKey(key, pressed) ==
    /\ player' = handleKeyInput(player, key, pressed)
    /\ player' # player
    /\ call' = [op |-> "key", id |-> key, arg |-> 0, ret |-> pressed]
    /\ UNCHANGED <<levelingVars, probe, bullets, snakes, frames, gameVars>>

MvUpdate(deltaTime) ==
    LET r == PlayerUpdate(player, deltaTime, CANVAS_WIDTH, CANVAS_HEIGHT, 0, 0)
    IN  /\ frames < MaxMoves
        /\ frames' = frames + 1
        /\ player' = r.player
        /\ bullets' = bullets \o r.bullets
        /\ call' = [op |-> "update", id |-> "", arg |-> deltaTime,
                    ret |-> r.bullets # <<>>]
        /\ UNCHANGED <<levelingVars, probe, snakes, gameVars>>

NextMove ==
    \/ \E key \in MoveKeys, pressed \in BOOLEAN : MvKey(key, pressed)
    \/ \E deltaTime \in MoveDeltas : MvUpdate(deltaTime)

SpecMove == InitMove /\ [][NextMove]_vars

(***************************************************************************)
(* Claims.                                                                 *)
(***************************************************************************)

\* C1: within one update a projectile damages at most one enemy: no two hits
\* of checkCollisions in a tick are by the same projectile.
C1_OneEnemyPerProjectile ==
    \A a, b \in 1..Len(events) :
        (a # b /\ events[a].kind = "hit" /\ events[b].kind = "hit")
            => events[a].bullet # events[b].bullet

\* the entries of events that deactivate the enemy they are about
Deactivating(e) == e.kind = "contact" \/ e.killed

\* C4: an enemy whose active flag is false takes no part in a collision
\* check: every hit and every contact of a tick found its enemy active, no
\* enemy is hit, touched or paid for after the entry that deactivated it,
\* and no inactive enemy is left in the collection when the update returns.
C4_InactiveEnemyTakesNoPart ==
    /\ \A j \in 1..Len(snakes) : snakes[j].active
    /\ \A a \in 1..Len(events) : events[a].found.active
    /\ \A a, b \in 1..Len(events) :
          (a < b /\ events[a].snake = events[b].snake)
              => ~Deactivating(events[a])

\* an enemy was killed by a projectile while it overlapped the player and a
\* later projectile of the same volley: that projectile is still active and
\* the contact check passed the enemy by, the player being unhurt
C4_Witness ==
    /\ HasPlayer(player)
    /\ ~player.invulnerable
    /\ ~player.powerups.shield
    /\ \A b \in 1..Len(events) : events[b].kind # "contact"
    /\ \E a \in 1..Len(events) :
          /\ events[a].killed
          /\ circleCollision(getCollisionBounds(player),
                             getCollisionBounds(events[a].found))
          /\ \E i \in 1..Len(bullets) :
                /\ i > events[a].bullet
                /\ bullets[i].active
                /\ circleCollision(getCollisionBounds(bullets[i]),
                                   getCollisionBounds(events[a].found))

\* the kills among the first k entries of es, and the xpValue they sum to
RECURSIVE KillsIn(_, _)
KillsIn(es, k) ==
    IF k = 0 THEN 0
    ELSE KillsIn(es, k - 1) + (IF es[k].killed THEN 1 ELSE 0)

RECURSIVE XpIn(_, _)
XpIn(es, k) ==
    IF k = 0 THEN 0
    ELSE XpIn(es, k - 1) + (IF es[k].killed THEN es[k].found.xpValue ELSE 0)

\* a step that is one animation frame running one update
OneUpdate == frames' = frames + 1 /\ rafQueue = 1 /\ running

\* C14: a projectile hit kills exactly when it takes the enemy's health to 0
\* or below; in the update it happens in, the enemy is inactive and gone from
\* the collection, and every such hit adds 1 to the kill counter, the
\* enemy's xpValue to the experience (10 times it to the score, and to xp up
\* to the thresholds passed on a level-up) and 1 to the points.
C14_KillPaysXpKillAndPoint ==
    [][OneUpdate =>
          /\ \A a \in 1..Len(events') :
                events'[a].kind = "hit" =>
                    /\ events'[a].killed
                           <=> events'[a].found.health - events'[a].damage <= 0
                    /\ events'[a].damage > 0
          /\ \A j \in 1..Len(snakes') :
                snakes'[j].active /\ snakes'[j].health > 0
          /\ leveling'.totalKills
                 = leveling.totalKills + KillsIn(events', Len(events'))
          /\ points' = points + KillsIn(events', Len(events'))
          /\ leveling'.score
                 = leveling.score + 10 * XpIn(events', Len(events'))
          /\ leveling'.level = leveling.level
                 => leveling'.xp = leveling.xp + XpIn(events', Len(events'))
          /\ Len(snakes') <= Len(snakes) + 1
                                 - KillsIn(events', Len(events'))]_vars

\* the second pistol shot at an enemy of 50 health killed it: the first
\* kill of the run is paid with its xpValue, a kill and a point
C14_Witness ==
    /\ frames = 2
    /\ leveling.totalKills = 1
    /\ points = 1
    /\ \E a \in 1..Len(events) :
          /\ events[a].killed
          /\ events[a].damage = 25
          /\ events[a].found.health = 25
          /\ events[a].found.maxHealth = 50
          /\ leveling.xp = events[a].found.xpValue
          /\ leveling.score = 10 * events[a].found.xpValue

\* the health the contacts listed in the first k entries of es took
RECURSIVE ContactDamageIn(_, _)
ContactDamageIn(es, k) ==
    IF k = 0 THEN 0
    ELSE ContactDamageIn(es, k - 1)
             + (IF es[k].kind = "contact" THEN es[k].damage ELSE 0)

\* a kill of the step brought the cumulative kills to a multiple of 5
FifthKill ==
    \E n \in (leveling.totalKills + 1)..leveling'.totalKills : n % 5 = 0

\* C15 as stated: in an update, the player's health goes up by 20 exactly
\* when a kill of the update brings the cumulative kills to a multiple of 5
\* with the health below maxHealth, and its only other change is the damage
\* of the contacts that follow.
C15_FifthKillHealsTwenty ==
    [][OneUpdate =>
          player'.health
             = (IF FifthKill /\ player.health < player.maxHealth
                THEN player.health + 20 ELSE player.health)
                  - ContactDamageIn(events', Len(events'))]_vars

\* C15, amended: the heal of a fifth kill below maxHealth is 20 capped at
\* maxHealth, applied once in the update of that kill; no other kill heals,
\* and a fifth kill at full health is not made up for later.
C15_FifthKillHealsCapped ==
    [][OneUpdate =>
          player'.health
             = (IF FifthKill /\ player.health < player.maxHealth
                THEN Min(player.health + 20, player.maxHealth)
                ELSE player.health)
                  - ContactDamageIn(events', Len(events'))]_vars

\* the fifth kill was made at health 10: the player is at 30, and no enemy
\* touched it
C15_Witness ==
    /\ leveling.totalKills = 5
    /\ HasPlayer(player)
    /\ player.health = 30
    /\ \E a \in 1..Len(events) : events[a].killed
    /\ \A a \in 1..Len(events) : events[a].kind # "contact"

\* C16: in every state of a game whose packs are activated by
\* handlePowerupActivation, at most one pack is in the active map.
C16_AtMostOneActivePack == Len(activePowerups) <= 1

\* a pack has been running for a frame while the points would pay for
\* another one
C16_Witness ==
    /\ running
    /\ frames = 1
    /\ Len(activePowerups) = 1
    /\ activePowerups[1].remainingTime
           < POWER_PACKS[activePowerups[1].id].duration
    /\ \A id \in PackIds : points >= POWER_PACKS[id].cost

\* a step between frames that does not start a game: a click on a pack, a
\* key or the pointer
BetweenFrames == frames' = frames /\ rafQueue' = rafQueue

\* C17: a request for a pack made when the game is not running, the points
\* are short of its cost or a pack is active changes neither the points nor
\* the active map nor the player's flags nor any enemy's frozen flag; and
\* the points go down and a pack becomes active only together, in one step,
\* by exactly the cost of the pack that became active.
C17_RejectedOrDebitedWithActivation ==
    [][BetweenFrames =>
          /\ (\/ ~running \/ gameOver
               \/ Len(activePowerups) > 0
               \/ \A id \in PackIds : points < POWER_PACKS[id].cost)
                 => /\ points' = points
                    /\ activePowerups' = activePowerups
                    /\ pendingAllySpawn' = pendingAllySpawn
                    /\ IF HasPlayer(player) /\ HasPlayer(player')
                       THEN player'.powerups = player.powerups
                       ELSE player' = player
                    /\ Len(snakes') = Len(snakes)
                    /\ \A j \in 1..Len(snakes) :
                          snakes'[j].frozen = snakes[j].frozen
          /\ (points' # points \/ activePowerups' # activePowerups)
                 => /\ activePowerups = <<>>
                    /\ Len(activePowerups') = 1
                    /\ LET e == activePowerups'[1]
                       IN  /\ e.id \in PackIds
                           /\ e.remainingTime = POWER_PACKS[e.id].duration
                           /\ points' = points - POWER_PACKS[e.id].cost]_vars

\* a pack was bought out of 20 points before any frame: it is active at its
\* full duration, and the 10 points left would pay for another one
C17_Witness ==
    /\ running
    /\ frames = 0
    /\ leveling.totalKills = 20
    /\ points = 10
    /\ Len(activePowerups) = 1
    /\ activePowerups[1].remainingTime
           = POWER_PACKS[activePowerups[1].id].duration

\* C18: once a frame has run since callForHelp was activated (its timer is
\* below the full duration), the pending-spawn marker is cleared and an Ally
\* exists.
C18_MarkerConsumedOnNextTick ==
    (/\ MapHas(activePowerups, "callForHelp")
     /\ Remaining(activePowerups, "callForHelp")
            < POWER_PACKS.callForHelp.duration)
        => ~pendingAllySpawn /\ ally # NoAlly

\* the place of a state in the order of the Ally's states
AllyRank(state) ==
    CASE state = "descending" -> 1
      [] state = "landing" -> 2
      [] state = "active" -> 3
      [] state = "despawning" -> 4
      [] state = "inactive" -> 5

\* C19: an Ally.update leaves the state as it is or moves it to the next
\* one of descending, landing, active, despawning, inactive; the active flag
\* is false exactly in inactive, and an update of an inactive ally changes
\* nothing of it.
C19_AllyStatesInOrder ==
    [][call'.op = "update" =>
          /\ AllyRank(ally'.state) \in {AllyRank(ally.state),
                                        AllyRank(ally.state) + 1}
          /\ ally'.active <=> ally'.state # "inactive"
          /\ ally.state = "inactive" => ally' = ally]_vars

\* an ally has gone through all the states, the last update being one of
\* an inactive ally
C19_Witness ==
    /\ call.op = "update"
    /\ call.id = "inactive"
    /\ ally.state = "inactive"
    /\ ~ally.active
    /\ ally.despawnFade = 0
    /\ ally.timeAlive >= 12000

\* C20: an Ally.update returns bullets only when it finds the state active
\* and leaves it active, and an update that finds the ally despawning or
\* inactive does not move it.
C20_ShootsOnlyActiveStillWhenLeaving ==
    [][call'.op = "update" =>
          /\ bullets' # <<>>
                 => ally.state = "active" /\ ally'.state = "active"
          /\ ally.state \in {"despawning", "inactive"}
                 => ally'.x = ally.x /\ ally'.y = ally.y]_vars

\* the update that ended the active time of an ally that had shot before,
\* with an enemy in reach: it returned nothing
C20_Witness ==
    /\ call.op = "update"
    /\ call.id = "active"
    /\ ~call.ret
    /\ ally.state = "despawning"
    /\ ally.lastShootTime > 0
    /\ findNearestSnake(ally, snakes, Len(snakes)) # 0

\* C21: an ally that is updated again and again with a positive frame time
\* ends up inactive; on the way, landing lasts until the 0.4 s of dust time
\* are used up and ends with the lifespan timer at zero, the active state
\* ends on the update that takes the timer to 12 s, and despawning ends on
\* the update that takes the fade to zero.
C21_AllyReachesInactive ==
    /\ <>(ally.state = "inactive")
    /\ [][call'.op = "update" =>
              /\ ally.state = "descending"
                     => (ally'.state = "landing" <=> ally'.y = ally.landingY)
              /\ ally.state = "landing"
                     => /\ ally'.landingDustTime
                              = ally.landingDustTime - call'.arg
                        /\ ally'.state = "active"
                              <=> ally'.landingDustTime <= 0
                        /\ ally'.state = "active" => ally'.timeAlive = 0
              /\ ally.state = "active"
                     => /\ ally'.timeAlive = ally.timeAlive + call'.arg
                        /\ ally'.state = "despawning"
                              <=> ally'.timeAlive >= 12000
              /\ ally.state = "despawning"
                     => (ally'.state = "inactive" <=> ally'.despawnFade = 0)
       ]_vars

\* an ally that took 24 updates of half a second to use up its lifespan
\* has become inactive
C21_Witness ==
    /\ ally.state = "inactive"
    /\ ~ally.active
    /\ ally.timeAlive = 12000
    /\ frames >= 27

\* the square of the distance from the ally to the enemy s
AllyDist2(s) ==
    (s.x - ally.x) * (s.x - ally.x) + (s.y - ally.y) * (s.y - ally.y)

\* C22: findNearestSnake returns null exactly when no enemy is live;
\* otherwise the enemy returned is live, no live enemy is nearer, and every
\* live enemy before it in the collection is farther.
C22_NearestLiveFirstOfTies ==
    call.op = "findNearestSnake" =>
        LET n == call.arg
        IN  /\ n = 0 <=> \A j \in 1..Len(snakes) : ~snakes[j].active
            /\ n # 0 =>
                  /\ n \in 1..Len(snakes)
                  /\ snakes[n].active
                  /\ \A j \in 1..Len(snakes) :
                        snakes[j].active
                            => AllyDist2(snakes[j]) >= AllyDist2(snakes[n])
                  /\ \A j \in 1..(n - 1) :
                        snakes[j].active
                            => AllyDist2(snakes[j]) > AllyDist2(snakes[n])

\* the second of three enemies was returned: the first is nearer but not
\* live, the third is live and as far as the second
C22_Witness ==
    /\ call.op = "findNearestSnake"
    /\ call.arg = 2
    /\ Len(snakes) = 3
    /\ ~snakes[1].active
    /\ AllyDist2(snakes[1]) < AllyDist2(snakes[2])
    /\ snakes[3].active
    /\ AllyDist2(snakes[3]) = AllyDist2(snakes[2])
    /\ snakes[3].x # snakes[2].x

\* the three stages of a run
Idle == ~running /\ ~gameOver
Ended == gameOver /\ ~running

\* what the simulation holds: everything of the game but the keys and the
\* pointer held by the player, the pending callbacks and the two flags
Simulation ==
    <<IF HasPlayer(player)
      THEN [player EXCEPT !.keys = NewPlayer(0, 0).keys,
                          !.mouseX = 0, !.mouseY = 0, !.mouseDown = FALSE]
      ELSE player,
      bullets, snakes, leveling, levelUpLog, points, activePowerups,
      pendingAllySpawn, lastTime, lastSpawnTime, events>>

Starting == frames' = frames /\ rafQueue' = rafQueue + 1

\* C24: Game.start, called from the menu or as restart from any ended game,
\* leaves a new player at the centre (full health, active, no power-up
\* flag set), no projectile and no enemy, xp 0, level 1, no kill, score 0,
\* an empty active map and no points, and the game running.
C24_StartResetsTheRun ==
    [][Starting =>
          /\ player' = NewPlayer(CANVAS_WIDTH \div 2, CANVAS_HEIGHT \div 2)
          /\ player'.health = player'.maxHealth
          /\ player'.active
          /\ \A f \in PowerupFlags : ~player'.powerups[f]
          /\ bullets' = <<>>
          /\ snakes' = <<>>
          /\ leveling' = [xp |-> 0, level |-> 1, totalKills |-> 0,
                           score |-> 0]
          /\ activePowerups' = <<>>
          /\ points' = 0
          /\ running' /\ ~gameOver']_vars

\* a game restarted after the player died with 20 kills and the ally pack
\* bought: the marker of the pack is the only trace of it
C24_Witness ==
    /\ running
    /\ frames = 1
    /\ rafQueue = 2
    /\ pendingAllySpawn
    /\ activePowerups = <<>>
    /\ points = 0
    /\ leveling = NewLeveling
    /\ player = NewPlayer(CANVAS_WIDTH \div 2, CANVAS_HEIGHT \div 2)
    /\ bullets = <<>> /\ snakes = <<>>

\* |a - b| <= d
Within(a, b, d) == a - b <= d /\ b - a <= d

\* the bullet c is the bullet b after a flight of at most 0.1 s
FlownFrom(c, b) ==
    /\ c.vx = b.vx /\ c.vy = b.vy /\ c.damage = b.damage
    /\ Within(c.x, b.x, (IF b.vx < 0 THEN -b.vx ELSE b.vx) \div 10 + 1)
    /\ Within(c.y, b.y, (IF b.vy < 0 THEN -b.vy ELSE b.vy) \div 10 + 1)

\* the bullet c left the gun of the player p, 23 px long, at most 0.1 s ago
FiredBy(c, p) ==
    /\ Within(c.x, p.x, 260 + (IF c.vx < 0 THEN -c.vx ELSE c.vx) \div 10)
    /\ Within(c.y, p.y, 260 + (IF c.vy < 0 THEN -c.vy ELSE c.vy) \div 10)

\* C25: whatever the gap between two frame timestamps, an update advances
\* no timer and no entity by more than 0.1 s: the remaining time of a pack
\* and the invulnerability time go down by at most 100 ms, the player and
\* the enemies move no further than 0.1 s at their speed (the enemies with
\* their wobble), and every bullet is 0.1 s of flight or less from where it
\* was or from the gun that fired it.
C25_UpdateAdvancesAtMostATenth ==
    [][OneUpdate =>
          /\ lastTime' = clock'
          /\ \A id \in PackIds :
                MapHas(activePowerups', id)
                    => Remaining(activePowerups', id)
                          >= Remaining(activePowerups, id) - 100
          /\ (player.invulnerable /\ player'.invulnerable)
                 => player'.invulnerableTime >= player.invulnerableTime - 100
          /\ Within(player'.x, player.x, player.speed \div 10)
          /\ Within(player'.y, player.y, player.speed \div 10)
          /\ events' = <<>> =>
                \A j \in 1..Len(snakes) :
                    /\ Within(snakes'[j].x, snakes[j].x,
                              (snakes[j].speed * 13) \div 100 + 1)
                    /\ Within(snakes'[j].y, snakes[j].y,
                              (snakes[j].speed * 13) \div 100 + 1)
          /\ \A k \in 1..Len(bullets') :
                \/ \E i \in 1..Len(bullets) :
                      FlownFrom(bullets'[k], bullets[i])
                \/ FiredBy(bullets'[k], player')]_vars

\* the first frame came 1.5 s late, with a pack bought, the key d held and
\* the trigger pulled: the pack has 0.1 s less, the player is 0.1 s to the
\* right and the bullet is in the air
C25_Witness ==
    /\ frames = 1
    /\ clock = SnapshotTime + 1500
    /\ Len(activePowerups) = 1
    /\ activePowerups[1].remainingTime
           = POWER_PACKS[activePowerups[1].id].duration - 100
    /\ player.x = CANVAS_WIDTH \div 2 + player.speed \div 10
    /\ Len(bullets) = 1
    /\ bullets[1].active
    /\ Len(snakes) = 1

\* C26: an update of a frame whose timestamp is not after the last one
\* takes nothing back: no pack's remaining time and no invulnerability time
\* goes up, no bullet moves against its velocity and no enemy moves away
\* from the player.
C26_StalledFrameTakesNothingBack ==
    [][(OneUpdate /\ clock' <= clock) =>
          /\ \A id \in PackIds :
                MapHas(activePowerups', id)
                    => Remaining(activePowerups', id)
                          <= Remaining(activePowerups, id)
          /\ (player.invulnerable /\ player'.invulnerable)
                 => player'.invulnerableTime <= player.invulnerableTime
          /\ (\A i \in 1..Len(bullets) : bullets[i].active)
                 => \A i \in 1..Len(bullets) :
                       /\ (bullets'[i].x - bullets[i].x) * bullets[i].vx >= 0
                       /\ (bullets'[i].y - bullets[i].y) * bullets[i].vy >= 0
          /\ events' = <<>>
                 => \A j \in 1..Len(snakes) :
                       (snakes'[j].x - snakes[j].x) * (player'.x - snakes[j].x)
                          + (snakes'[j].y - snakes[j].y)
                               * (player'.y - snakes[j].y) >= 0]_vars

\* the enemies that the entries of es say were deactivated
Removed(es) == Cardinality({a \in 1..Len(es) : Deactivating(es[a])})

\* C27: an update adds an enemy exactly when, as it starts, the time since
\* the last spawn is at least the spawn interval of the level and the
\* enemies are fewer than its cap of 10 + 2 * level; it adds one, and sets
\* the spawn timer to the frame's timestamp; and the enemies are never more
\* than the cap of the current level.
C27_OneSpawnWhenDueUnderCap ==
    /\ [](Len(snakes) <= 10 + 2 * leveling.level)
    /\ [][OneUpdate =>
              LET due == /\ clock' - lastSpawnTime >= getSpawnRate(leveling)
                         /\ Len(snakes) < 10 + 2 * leveling.level
              IN  /\ due => /\ lastSpawnTime' = clock'
                            /\ Len(snakes') + Removed(events')
                                  = Len(snakes) + 1
                  /\ ~due => /\ lastSpawnTime' = lastSpawnTime
                             /\ Len(snakes') + Removed(events')
                                   = Len(snakes)]_vars

\* the spawn of the first frame filled the cap of level 1, and the second
\* frame, a spawn interval later, added nothing
C27_Witness ==
    /\ frames = 2
    /\ leveling.level = 1
    /\ Len(snakes) = 12
    /\ events = <<>>
    /\ lastSpawnTime > SnapshotTime
    /\ clock - lastSpawnTime >= getSpawnRate(leveling)

\* C11: right after PowerupManager.activate of a duration power-up, also when
\* that id was active already with part of its time run down, the active map
\* holds exactly one entry for the id, its remaining time the full duration.
C11_ReactivateRefreshes ==
    [][call'.op = "activate" =>
          /\ Cardinality({i \in 1..Len(activePowerups') :
                             activePowerups'[i].id = call'.id}) = 1
          /\ Remaining(activePowerups', call'.id)
                 = POWER_PACKS[call'.id].duration]_vars

\* a pack was activated again after ticks had run part of its time down
C11_Witness ==
    /\ call.op = "activate"
    /\ call.ret
    /\ call.arg > 0
    /\ call.arg < POWER_PACKS[call.id].duration
    /\ Remaining(activePowerups, call.id) = POWER_PACKS[call.id].duration
    /\ frames >= 1

\* the move from s to t heads for the player p: its scalar product with the
\* direction from s to p is positive
HeadsForPlayer(s, t, p) ==
    (t.x - s.x) * (p.x - s.x) + (t.y - s.y) * (p.y - s.y) > 0

\* C12: activating the freeze sets frozen on every live enemy; on a tick that
\* leaves the freeze running the frozen enemies stay where they are; on the
\* tick that ends it every enemy is unfrozen and moves towards the player;
\* and no step of freezing, ticking or unfreezing changes an enemy's health
\* or radius.
C12_FreezeHaltsThenResumes ==
    [][/\ Len(snakes') = Len(snakes)
       /\ \A j \in 1..Len(snakes) :
             /\ snakes'[j].health = snakes[j].health
             /\ snakes'[j].radius = snakes[j].radius
             /\ (call'.op = "activate" /\ call'.id = "freezeSnakes"
                   /\ snakes[j].active) => snakes'[j].frozen
             /\ (call'.op = "tick" /\ snakes[j].frozen
                   /\ MapHas(activePowerups', "freezeSnakes"))
                  => /\ snakes'[j].frozen
                     /\ snakes'[j].x = snakes[j].x
                     /\ snakes'[j].y = snakes[j].y
             /\ (call'.op = "tick" /\ call'.id = "freezeSnakes")
                  => /\ ~snakes'[j].frozen
                     /\ HeadsForPlayer(snakes[j], snakes'[j], player)]_vars

\* the freeze ran out on the second tick: the enemies, held at their spawn
\* points through the first one, have made the move of that tick only
C12_Witness ==
    /\ call.op = "tick"
    /\ call.id = "freezeSnakes"
    /\ frames = 2
    /\ Len(snakes) = 2
    /\ ~snakes[1].frozen
    /\ snakes[1].x = -500 + call.arg
    /\ snakes[1].health = snakes[1].maxHealth

\* C13: Player.takeDamage changes nothing and returns false while the shield
\* flag is set or the invulnerability window is open; otherwise it subtracts
\* the damage, opens the window of 1 second, and returns true, clearing
\* active, exactly when the health left is <= 0 (health is then left at 0).
C13_TakeDamageGuardedByShield ==
    [][call'.op = "takeDamage" =>
          IF player.invulnerable \/ player.powerups.shield
          THEN player' = player /\ ~call'.ret
          ELSE LET left == player.health - call'.arg
               IN  /\ call'.ret <=> left <= 0
                   /\ player' = [player EXCEPT
                                    !.health = IF left <= 0 THEN 0 ELSE left,
                                    !.invulnerable = TRUE,
                                    !.invulnerableTime = 1000,
                                    !.active = player.active /\ left > 0]]_vars

\* a hit of 150 was absorbed by the shield, outside the invulnerability
\* window: the player is alive at the health it had
C13_Witness ==
    /\ call.op = "takeDamage"
    /\ call.arg = 150
    /\ ~call.ret
    /\ HasPlayer(player)
    /\ player.powerups.shield
    /\ ~player.invulnerable
    /\ player.active
    /\ player.health > 0

\* C5: within a run, after any sequence of addXp calls with non-negative
\* amounts the level is not below the level on entry to the last call, xp is
\* never negative and below the threshold of the current level when addXp
\* returns, and the level-up loop ended after at most `amount` iterations.
C5_XpStaysBelowThreshold ==
    /\ leveling.level >= xpCall.level
    /\ leveling.xp >= 0
    /\ leveling.xp < getXpForLevel(leveling.level)
    /\ Len(levelUpLog) <= xpCall.amount

C5_Witness ==
    /\ Len(levelUpLog) >= 3
    /\ leveling.xp > 0
    /\ xpCall.xp > 0

RECURSIVE SumThresholds(_, _)
SumThresholds(from, n) ==
    IF n = 0 THEN 0
    ELSE getXpForLevel(from) + SumThresholds(from + 1, n - 1)

\* the last addXp call started from xp = 0 with an amount of at least the
\* thresholds of two consecutive levels
C6_Case ==
    /\ xpCall.xp = 0
    /\ xpCall.amount >= SumThresholds(xpCall.level, 2)

\* C6 as claimed: from xp = 0 at level L, one addXp call with an amount >=
\* getXpForLevel(L) + getXpForLevel(L+1) fires exactly two level-up
\* notifications and leaves xp = amount minus the two thresholds.
C6_ExactlyTwoLevelUps ==
    C6_Case =>
        /\ Len(levelUpLog) = 2
        /\ leveling.xp = xpCall.amount - SumThresholds(xpCall.level, 2)

\* C6 amended: such a call fires at least two level-up notifications, one
\* per threshold consumed, for the levels L+1, L+2, ... in order; exactly two
\* when the amount is below the sum of the three thresholds from L; and it
\* leaves xp = amount minus the thresholds consumed.
C6_MultiLevelUp ==
    C6_Case =>
        LET n == Len(levelUpLog)
        IN  /\ n >= 2
            /\ \A i \in 1..n : levelUpLog[i] = xpCall.level + i
            /\ leveling.level = xpCall.level + n
            /\ (xpCall.amount < SumThresholds(xpCall.level, 3)) => n = 2
            /\ leveling.xp = xpCall.amount - SumThresholds(xpCall.level, n)

C6_Witness ==
    /\ C6_Case
    /\ Len(levelUpLog) = 2
    /\ xpCall.level > 1
    /\ leveling.xp > 0

\* C7: getXpForLevel(L) = floor(100 * L^1.5) and getXpForLevel(L+1) >
\* getXpForLevel(L), for every level L from 1 to the level reached.
C7_XpThresholdStrictlyIncreasing ==
    \A L \in 1..leveling.level :
        LET t == getXpForLevel(L)
        IN  /\ getXpForLevel(L + 1) > t
            /\ t >= 0
            /\ t * t <= 10000 * L * L * L
            /\ (t + 1) * (t + 1) > 10000 * L * L * L

C7_Witness == leveling.level >= 20

\* C8: the spawn interval of getSpawnRate / getDifficultyInfo does not grow
\* from a level to the next and is never below SNAKE_MIN_SPAWN_RATE, for
\* every level L from 1 to the level reached.
C8_SpawnRateNonIncreasingFloored ==
    \A L \in 1..leveling.level :
        LET here == [leveling EXCEPT !.level = L]
            next == [leveling EXCEPT !.level = L + 1]
        IN  /\ getSpawnRate(next) <= getSpawnRate(here)
            /\ getSpawnRate(here) >= SNAKE_MIN_SPAWN_RATE
            /\ getDifficultyInfo(here).spawnRate = getSpawnRate(here)
            /\ getDifficultyInfo(here).spawnRate >= SNAKE_MIN_SPAWN_RATE

\* a level at which the reduction alone would go below the floor
C8_Witness ==
    /\ leveling.level >= 25
    /\ getSpawnRate(leveling) = SNAKE_MIN_SPAWN_RATE
    /\ getSpawnRate([leveling EXCEPT !.level = 1]) = SNAKE_SPAWN_RATE

\* C2: every enemy has 0 <= health <= maxHealth in every state after
\* Snake.takeDamage returns, the kill hit included.
C2_SnakeHealthInRange ==
    \A i \in 1..Len(snakes) :
        /\ 0 <= snakes[i].health
        /\ snakes[i].health <= snakes[i].maxHealth

\* C3: the player has 0 <= health <= maxHealth after any sequence of
\* takeDamage and heal calls with non-negative amounts.
C3_PlayerHealthInRange ==
    HasPlayer(player) =>
        /\ 0 <= player.health
        /\ player.health <= player.maxHealth

\* the player was killed by a hit, health left at 0, within the window of
\* invulnerability the hit opened
C3_Witness ==
    /\ HasPlayer(player)
    /\ player.health = 0
    /\ ~player.active
    /\ player.invulnerable

BulletInMargin(b) ==
    /\ b.x >= -(2 * b.radius)
    /\ b.x <= CANVAS_WIDTH + 2 * b.radius
    /\ b.y >= -(2 * b.radius)
    /\ b.y <= CANVAS_HEIGHT + 2 * b.radius

\* C9: across each Bullet.update, a projectile that meets no enemy is active
\* afterwards iff it was active before and now lies within the playfield
\* extended by twice its radius: it stays active while within the margin,
\* becomes inactive on the first update that leaves it beyond the margin, and
\* once inactive never becomes active again.
C9_BulletActiveUntilBeyondMargin ==
    [][\A i \in 1..Len(bullets) :
          Len(bullets') = Len(bullets) =>
              (bullets'[i].active <=>
                  (bullets[i].active /\ BulletInMargin(bullets'[i])))]_vars

\* a bullet that survived an update inside the margin strip outside the
\* playfield, and went inactive beyond it on a later one
C9_Witness ==
    /\ Len(bullets) = 1
    /\ frames >= 2
    /\ ~bullets[1].active
    /\ ~BulletInMargin(bullets[1])
    /\ \E dt \in {16, 100} :
          LET px == bullets[1].x - TDiv(bullets[1].vx * dt, 1000)
              py == bullets[1].y - TDiv(bullets[1].vy * dt, 1000)
              prev == [bullets[1] EXCEPT !.x = px, !.y = py]
          IN  /\ BulletInMargin(prev)
              /\ (px > CANVAS_WIDTH \/ px < 0 \/ py > CANVAS_HEIGHT \/ py < 0)

ProbeDist2 ==
    (probe.c2.x - probe.c1.x) * (probe.c2.x - probe.c1.x)
        + (probe.c2.y - probe.c1.y) * (probe.c2.y - probe.c1.y)
ProbeReach2 ==
    (probe.c1.radius + probe.c2.radius) * (probe.c1.radius + probe.c2.radius)

\* C10: circleCollision(c1, c2) is true iff the distance d of the centres
\* satisfies d < r1 + r2 (d^2 < (r1 + r2)^2); touching circles (d = r1 + r2)
\* do not collide.
C10_CollisionIffCloserThanRadii ==
    probe.applied =>
        /\ probe.result <=> (ProbeDist2 < ProbeReach2)
        /\ (ProbeDist2 = ProbeReach2) => ~probe.result

\* touching circles off the axes (a 3-4-5 triangle), reported not colliding
C10_Witness ==
    /\ probe.applied
    /\ ProbeDist2 = ProbeReach2
    /\ probe.c1.x # probe.c2.x
    /\ probe.c1.y # probe.c2.y
    /\ ~probe.result

\* C28: every live enemy whose circle overlaps the player's when the
\* collisions of a tick are resolved is deactivated in that tick, under a
\* shield or invulnerability too: no enemy left by the update overlaps the
\* player, every contact found its enemy live and overlapping, and a contact
\* takes 5 + floor(0.5 * radius) of health (down to 0 at most) when the
\* player is unguarded and nothing when it is guarded.
C28_OverlapDeactivatesAlways ==
    [][OneUpdate =>
          /\ \A j \in 1..Len(snakes') :
                ~circleCollision(getCollisionBounds(player'),
                                 getCollisionBounds(snakes'[j]))
          /\ \A a \in 1..Len(events') :
                events'[a].kind = "contact" =>
                    /\ events'[a].found.active
                    /\ circleCollision(getCollisionBounds(player'),
                                       getCollisionBounds(events'[a].found))
                    /\ events'[a].health - events'[a].damage
                          = (IF events'[a].guarded
                             THEN events'[a].health
                             ELSE Max(0, events'[a].health
                                            - (5 + events'[a].found.radius
                                                      \div 20)))]_vars

\* an enemy touched the player under the shield: it is gone and the
\* player's health is what it was
C28_Witness ==
    /\ HasPlayer(player)
    /\ player.powerups.shield
    /\ snakes = <<>>
    /\ \E a \in 1..Len(events) :
          /\ events[a].kind = "contact"
          /\ events[a].guarded
          /\ events[a].damage = 0
          /\ player.health = events[a].health

\* the ids an operation knows: the weapon table for setWeapon, the player's
\* flags for applyPowerup and removePowerup, the pack table for
\* handlePowerupActivation, and all the power-up ids for activate
KnownId(op, id) ==
    IF op = "setWeapon" THEN id \in WeaponIds
    ELSE IF op \in {"applyPowerup", "removePowerup"} THEN id \in PowerupFlags
    ELSE IF op = "handlePowerupActivation" THEN id \in PackIds
    ELSE id \in PackIds \cup PowerupFlags \cup {"nuke"}

\* a step that is a call of one of the five operations with an unknown id
UnknownIdCall ==
    /\ call'.op \in {"setWeapon", "applyPowerup", "removePowerup",
                     "handlePowerupActivation", "activate"}
    /\ ~KnownId(call'.op, call'.id)

\* C29: setWeapon, applyPowerup, removePowerup, handlePowerupActivation and
\* activate called with an unknown id change nothing: the current weapon,
\* the player's power-up flags, the active map and the points stay as they
\* were.
C29_UnknownIdChangesNothing ==
    [][UnknownIdCall =>
          /\ player'.currentWeapon = player.currentWeapon
          /\ player'.powerups = player.powerups
          /\ activePowerups' = activePowerups
          /\ points' = points]_vars

\* C30: at the end of every tick the projectile collection and the enemy
\* collection hold only entities whose active flag is true.
C30_CollectionsHoldOnlyActive ==
    /\ \A i \in 1..Len(bullets) : bullets[i].active
    /\ \A j \in 1..Len(snakes) : snakes[j].active

\* the delta of the update of the step, in ms
StepDelta == Min(clock' - lastTime, 100)

\* C31: the stages of one update run in the order player, power-up timers,
\* spawn, projectiles, enemies, collisions, compaction, end-of-run check: a
\* projectile fired in the tick (with the flags the player had as the tick
\* began) has been advanced from the gun by the end of it, an enemy spawned
\* in the tick has made its first move, and on the tick a freeze runs out
\* every enemy is unfrozen and has moved towards the player.
C31_StagesInOrder ==
    [][OneUpdate =>
          /\ player'.lastShootTime # player.lastShootTime =>
                LET shot == ShootBullets([player' EXCEPT
                                             !.powerups = player.powerups], 0)
                IN  /\ Len(bullets') >= Len(shot)
                    /\ \A k \in 1..Len(shot) :
                          [bullets'[Len(bullets') - Len(shot) + k]
                              EXCEPT !.active = TRUE]
                            = BulletUpdate(shot[k], StepDelta, CANVAS_WIDTH,
                                           CANVAS_HEIGHT)
          /\ lastSpawnTime' # lastSpawnTime =>
                /\ Len(snakes') > 0
                /\ \E in \in FrameInputs :
                      snakes'[Len(snakes')]
                        = SnakeUpdate(NewSnake(in.at, leveling.level, in.size,
                                               in.speed),
                                      StepDelta, player'.x, player'.y,
                                      in.wobble)
          /\ (/\ MapHas(activePowerups, "freezeSnakes")
              /\ ~MapHas(activePowerups', "freezeSnakes")
              /\ Removed(events') = 0) =>
                \A j \in 1..Len(snakes) :
                    /\ ~snakes'[j].frozen
                    /\ HeadsForPlayer(snakes[j], snakes'[j], player')]_vars

\* one tick a tenth of a second long, with the trigger pulled: the bullet
\* fired in it has hit the enemy in the line of fire, which has moved, and
\* the enemy spawned in it has left the edge
C31_Witness ==
    /\ frames = 1
    /\ Len(bullets) = 1
    /\ \E a \in 1..Len(events) :
          events[a].kind = "hit" /\ events[a].bullet = 1
    /\ Len(snakes) = 2
    /\ snakes[1].x < 6800
    /\ ~snakes[1].frozen
    /\ snakes[2].x > -500
    /\ activePowerups = <<>>
    /\ points = 0

\* C32: whenever the freeze is not in the active map, no enemy of the
\* collection is frozen: the expiry unfreezes every enemy there is, those
\* that came during the freeze included.
C32_NoFreezeNoFrozenEnemy ==
    ~MapHas(activePowerups, "freezeSnakes")
        => \A j \in 1..Len(snakes) : ~snakes[j].frozen

\* the freeze ran out on the second tick: the enemy it held at x = 680 px
\* through the first tick has made the move of the second only, and the
\* enemies that came later are with it, none frozen
C32_Witness ==
    /\ frames = 2
    /\ activePowerups = <<>>
    /\ points = 0
    /\ Len(snakes) >= 2
    /\ snakes[1].x = 6700
    /\ \A j \in 1..Len(snakes) : ~snakes[j].frozen

\* a freeze runs through the update of the step
FreezeThrough ==
    /\ MapHas(activePowerups, "freezeSnakes")
    /\ MapHas(activePowerups', "freezeSnakes")

\* C33: an enemy spawned while a freeze is active is not frozen, and through
\* the rest of the freeze it moves towards the player on every tick, while
\* the enemies frozen at the activation stay where they are.
C33_SpawnedUnderFreezeMoves ==
    [][(OneUpdate /\ FreezeThrough) =>
          /\ lastSpawnTime' # lastSpawnTime =>
                /\ Len(snakes') > 0
                /\ ~snakes'[Len(snakes')].frozen
                /\ \E at \in SpawnPoints :
                      HeadsForPlayer(at, snakes'[Len(snakes')], player')
          /\ Removed(events') = 0 =>
                \A j \in 1..Len(snakes) :
                    IF snakes[j].frozen
                    THEN /\ snakes'[j].frozen
                         /\ snakes'[j].x = snakes[j].x
                         /\ snakes'[j].y = snakes[j].y
                    ELSE /\ ~snakes'[j].frozen
                         /\ HeadsForPlayer(snakes[j], snakes'[j],
                                           player')]_vars

\* two ticks into a freeze with time to run: the enemy frozen at x = 680 px
\* is still there, and the enemy spawned on the first tick has moved on both
C33_Witness ==
    /\ frames = 2
    /\ MapHas(activePowerups, "freezeSnakes")
    /\ Len(snakes) = 2
    /\ snakes[1].frozen
    /\ snakes[1].x = 6800
    /\ ~snakes[2].frozen
    /\ snakes[2].x > -390
    /\ snakes[2].x < 0

\* C34: after every Player.update the player is inside the playfield by its
\* radius: radius <= x <= width - radius and radius <= y <= height - radius.
C34_PlayerStaysInBounds ==
    call.op = "update" =>
        /\ player.radius <= player.x
        /\ player.x <= CANVAS_WIDTH - player.radius
        /\ player.radius <= player.y
        /\ player.y <= CANVAS_HEIGHT - player.radius

\* an update of 5 s with d and w held left the player in the top right-hand
\* corner, a radius from either edge
C34_Witness ==
    /\ call.op = "update"
    /\ call.arg = 5000
    /\ player.keys.right /\ player.keys.up
    /\ ~player.keys.left /\ ~player.keys.down
    /\ player.x = CANVAS_WIDTH - player.radius
    /\ player.y = player.radius

\* C35: at most one game-loop callback is ever scheduled, so that an
\* animation frame runs Game.update once: also after a run has ended and
\* been restarted before the frame requested by its last tick has fired.
C35_OneLoopScheduled == rafQueue <= 1

\* the cost of the pack that the step activated: of the entry that the step
\* added to the active map between two frames
SpentInStep ==
    IF frames' = frames /\ Len(activePowerups') > Len(activePowerups)
    THEN POWER_PACKS[activePowerups'[Len(activePowerups')].id].cost
    ELSE 0

\* C36: the points are never negative, and they are the kills of the run
\* less the costs of the packs activated in it: a start or restart sets both
\* the points and the kills to 0, and every other step changes the points by
\* the kills it made less the cost of the pack it activated.
C36_PointsAreKillsLessSpent ==
    /\ [](points >= 0)
    /\ [][IF Starting
          THEN points' = 0 /\ leveling'.totalKills = 0
          ELSE points' - points
                  = (leveling'.totalKills - leveling.totalKills)
                       - SpentInStep]_vars

\* twenty kills, a pack bought for ten of them, and a kill since
C36_Witness ==
    /\ Len(activePowerups) = 1
    /\ leveling.totalKills = 21
    /\ points = 11

\* the enemies, by their place in the collection, that the entries of es say
\* were killed
KilledIn(es) == {es[a].snake : a \in {b \in 1..Len(es) : es[b].killed}}

\* C37: an enemy pays its experience, kill and point once at most: in an
\* update no enemy is killed twice and none is hit after the hit that killed
\* it, however many projectiles overlap it, and the kills and the points go
\* up by the number of enemies killed.
C37_EnemyPaysOnce ==
    [][OneUpdate =>
          /\ \A a, b \in 1..Len(events') :
                (a < b /\ events'[a].snake = events'[b].snake)
                    => ~events'[a].killed
          /\ leveling'.totalKills - leveling.totalKills
                 = Cardinality(KilledIn(events'))
          /\ points' - points = Cardinality(KilledIn(events'))]_vars

\* the first kill of a run, by one pellet of a volley: a later pellet of the
\* volley, still in flight, overlaps the place the enemy was killed at
C37_Witness ==
    /\ leveling.totalKills = 1
    /\ points = 1
    /\ \E a \in 1..Len(events) :
          /\ events[a].killed
          /\ \E i \in 1..Len(bullets) :
                /\ i > events[a].bullet
                /\ bullets[i].active
                /\ circleCollision(getCollisionBounds(bullets[i]),
                                   getCollisionBounds(events[a].found))

\* the entries of es that are contacts with the player
Contacts(es) == {a \in 1..Len(es) : es[a].kind = "contact"}

\* C38: in one tick the player loses health to one enemy contact at most:
\* of the enemies that touch it in the tick the first in order takes its
\* damage (if the player is unguarded) and opens the invulnerability window
\* of 1 s, the others take nothing, and all of them leave the collection.
C38_OneContactHurtsPerTick ==
    [][OneUpdate =>
          /\ \A a, b \in Contacts(events') :
                a < b => /\ events'[b].guarded
                         /\ events'[b].damage = 0
                         /\ events'[b].snake # events'[a].snake
          /\ \A a \in Contacts(events') :
                ~events'[a].guarded =>
                    /\ events'[a].damage
                          = Min(events'[a].health,
                                5 + events'[a].found.radius \div 20)
                    /\ player'.invulnerable
                    /\ player'.invulnerableTime = 1000
          /\ Len(snakes') = Len(snakes) - Removed(events')
                + (IF lastSpawnTime' # lastSpawnTime THEN 1 ELSE 0)]_vars

\* two enemies touched the player in the first tick: the first took 12 of
\* its health, the second nothing, and both are gone
C38_Witness ==
    /\ frames = 1
    /\ snakes = <<>>
    /\ Len(events) = 2
    /\ events[1].kind = "contact" /\ events[2].kind = "contact"
    /\ ~events[1].guarded /\ events[1].damage = 12
    /\ events[2].guarded /\ events[2].damage = 0
    /\ player.health = 88
    /\ player.invulnerable

\* C39: at every tick boundary the player's flag of a pack that has a
\* duration and a flag (shield, fasterGuns) is set exactly when the pack is
\* in the active map: the flag goes with the entry, in the update that the
\* pack expires in.
C39_FlagIffInActiveMap ==
    HasPlayer(player) =>
        \A id \in {"shield", "fasterGuns"} :
            player.powerups[id] <=> MapHas(activePowerups, id)

\* the shield took the contact of two enemies on the first tick and ran out
\* on the second: the player is unhurt, with no flag and no entry
C39_Witness ==
    /\ frames = 2
    /\ activePowerups = <<>>
    /\ points = 0
    /\ player.health = 100
    /\ ~player.powerups.shield
    /\ ~player.invulnerable
    /\ events = <<>>
    /\ Len(snakes) = 1
    /\ snakes[1].x < 0

\* the entries of es that are hits that killed
KillingHits(es) == {a \in 1..Len(es) : es[a].kind = "hit" /\ es[a].killed}

\* C40: an enemy deactivated by contact with the player pays nothing: an
\* update in which no projectile killed leaves xp, level, score, kills and
\* points as they were, whatever touched the player, and in any update the
\* kills and the points go up by the number of hits that killed.
C40_ContactPaysNothing ==
    [][OneUpdate =>
          /\ KillingHits(events') = {} =>
                /\ leveling' = leveling
                /\ points' = points
          /\ leveling'.totalKills - leveling.totalKills
                 = Cardinality(KillingHits(events'))
          /\ points' - points = Cardinality(KillingHits(events'))]_vars

\* an enemy touched the player and took 12 of its health, four kills into
\* the run: the kills and the points are still four, the xp that of four
C40_Witness ==
    /\ frames = 1
    /\ \E a \in 1..Len(events) :
          events[a].kind = "contact" /\ events[a].damage = 12
    /\ KillingHits(events) = {}
    /\ leveling = AfterKills(4)
    /\ points = 4
    /\ player.health = 88

=============================================================================
